---- MODULE Spec2Model ----
(***************************************************************************)
(* A model of twoliter's container build driver (tools/buildsys,           *)
(* builder.rs) and of the pipesys descriptor broker (tools/pipesys).       *)
(*                                                                         *)
(* The module holds several specifications over one set of variables:     *)
(*   SpecDocker      docker(): one command with its retry loop             *)
(*   FairSpecDocker  the same, every started invocation completing         *)
(*   SpecBuild       DockerBuild::build with its two background tasks      *)
(*   SpecServe       Server::serve, the broker's accept loop               *)
(*   SpecFs          clean_build_files / copy_build_files over file trees  *)
(*   SpecMakeflags   parse_makeflags over handshake texts                  *)
(*   SpecFetch       fetch_fds in a client of the broker                   *)
(*   SpecMake        Make::execute, the launcher inside the container      *)
(* Each specification moves its own group of variables and leaves the      *)
(* other groups at their initial values.                                   *)
(***************************************************************************)
EXTENDS Integers, Sequences, FiniteSets, TLC

(***************************************************************************)
(* Part 1.  docker(args, retry)                         builder.rs 30..556 *)
(***************************************************************************)

VARIABLES
    dkRetry,        \* "Yes" | "No": the Retry argument of this call
    dkAttempt,      \* the local `attempt`
    dkInvocations,  \* how many times cmd("docker", ..).run() has been called
    dkLastOut,      \* stdout (stderr folded in) of the latest invocation
    dkLastStatus,   \* "none" | "ok" | "fail" | "nostart" of the latest invocation
    dkResult,       \* "none" while looping, else "Ok" | "DockerExecution" | "CommandStart"
    dkFailures,     \* how many invocations exited nonzero so far
    dkAllFrontend   \* every nonzero exit so far matched DOCKER_BUILD_FRONTEND_ERROR

dockerVars == <<dkRetry, dkAttempt, dkInvocations, dkLastOut, dkLastStatus,
                dkResult, dkFailures, dkAllFrontend>>

\* The captured output is a sequence of lines; a line is a sequence of text
\* fragments.  The fragments are the pieces the four regexes are built from.
F_DOCKERFILE == "failed to solve with frontend dockerfile.v0: "
F_GATEWAY    == "failed to solve with frontend gateway.v0: "
F_GRPC       == "frontend grpc server closed unexpectedly"
F_LLB        == "rpc error: code = Unknown desc = failed to build LLB: "
F_DEAD       == "failed to get dead record"
F_EOF        == "unexpected EOF"
F_CREATEREPO == "C_CREATEREPOLIB: Warning: read_header: rpmReadPackageFile() error"
F_OTHER      == "Step 1/9 : FROM sdk"

\* A regex of the source: the literal it searches for, and whether the match
\* must end at the end of a line ((?m) ... $).
DOCKER_BUILD_FRONTEND_ERROR ==
    [lit |-> <<F_DOCKERFILE, F_GATEWAY, F_GRPC>>, eol |-> FALSE]

DOCKER_BUILD_DEAD_RECORD_ERROR ==
    [lit |-> <<F_DOCKERFILE, F_GATEWAY, F_LLB, F_DEAD>>, eol |-> FALSE]

UNEXPECTED_EOF_ERROR ==
    [lit |-> <<F_EOF>>, eol |-> TRUE]

CREATEREPO_C_READ_HEADER_ERROR ==
    [lit |-> <<F_CREATEREPO>>, eol |-> FALSE]

DOCKER_BUILD_MAX_ATTEMPTS == 10

\* The `messages` slice build() passes with Retry::Yes.
RetryMessages ==
    {DOCKER_BUILD_FRONTEND_ERROR, DOCKER_BUILD_DEAD_RECORD_ERROR,
     UNEXPECTED_EOF_ERROR, CREATEREPO_C_READ_HEADER_ERROR}

\* Regex::is_match on the whole of stdout: the literal occurs inside one line
\* (no fragment holds a newline), at the line's end when the regex says so.
is_match(m, stdout) ==
    \E i \in 1..Len(stdout) :
        \E s \in 1..Len(stdout[i]) :
            /\ s + Len(m.lit) - 1 <= Len(stdout[i])
            /\ SubSeq(stdout[i], s, s + Len(m.lit) - 1) = m.lit
            /\ m.eol => (s + Len(m.lit) - 1 = Len(stdout[i]))

\* The lines a docker command is taken to print.
MaxLines == 2

DockerLines ==
    { <<F_DOCKERFILE, F_GATEWAY, F_GRPC>>,
      <<F_GRPC>>,
      <<F_DOCKERFILE, F_GATEWAY, F_LLB, F_DEAD>>,
      <<F_OTHER, F_EOF>>,
      <<F_EOF, F_OTHER>>,
      <<F_OTHER, F_CREATEREPO, F_OTHER>>,
      <<F_OTHER>>,
      <<>> }

RECURSIVE SeqsUpTo(_, _)
SeqsUpTo(S, n) ==
    IF n = 0 THEN { <<>> }
    ELSE LET shorter == SeqsUpTo(S, n - 1)
         IN  shorter \cup { Append(q, x) : q \in shorter, x \in S }

DockerOutputs == SeqsUpTo(DockerLines, MaxLines)

\* max_attempts and retry_messages as set at the top of docker().
max_attempts(retry) == IF retry = "Yes" THEN DOCKER_BUILD_MAX_ATTEMPTS ELSE 1

retry_messages(retry) == IF retry = "Yes" THEN RetryMessages ELSE {}

\* The ensure!() of the loop: may this failed invocation be retried?
RetryAllowedNoBound(retry, stdout, attempt) ==
    \E m \in retry_messages(retry) : is_match(m, stdout)

RetryAllowedAnyOutput(retry, stdout, attempt) ==
    attempt < max_attempts(retry)

RetryAllowedOffByOne(retry, stdout, attempt) ==
    /\ \E m \in retry_messages(retry) : is_match(m, stdout)
    /\ attempt + 1 < max_attempts(retry)

RetryAllowed(retry, stdout, attempt) ==
    /\ \E m \in retry_messages(retry) : is_match(m, stdout)
    /\ attempt < max_attempts(retry)

InitDocker ==
    /\ dkRetry \in {"Yes", "No"}
    /\ dkAttempt = 1
    /\ dkInvocations = 0
    /\ dkLastOut = <<>>
    /\ dkLastStatus = "none"
    /\ dkResult = "none"
    /\ dkFailures = 0
    /\ dkAllFrontend = TRUE

IdleDocker ==
    /\ dkRetry = "No"
    /\ dkAttempt = 1
    /\ dkInvocations = 0
    /\ dkLastOut = <<>>
    /\ dkLastStatus = "none"
    /\ dkResult = "none"
    /\ dkFailures = 0
    /\ dkAllFrontend = TRUE

\* One turn of the loop of docker(): the command could not be started.
DockerNoStart ==
    /\ dkResult = "none"
    /\ dkInvocations' = dkInvocations + 1
    /\ dkLastOut' = <<>>
    /\ dkLastStatus' = "nostart"
    /\ dkResult' = "CommandStart"
    /\ UNCHANGED <<dkRetry, dkAttempt, dkFailures, dkAllFrontend>>

\* One turn of the loop: the command ran and exited with success.
DockerSuccess ==
    /\ dkResult = "none"
    /\ \E stdout \in DockerOutputs :
          /\ dkInvocations' = dkInvocations + 1
          /\ dkLastOut' = stdout
          /\ dkLastStatus' = "ok"
          /\ dkResult' = "Ok"
    /\ UNCHANGED <<dkRetry, dkAttempt, dkFailures, dkAllFrontend>>

\* One turn of the loop: the command ran and exited nonzero.
DockerFailure ==
    /\ dkResult = "none"
    /\ \E stdout \in DockerOutputs :
          /\ dkInvocations' = dkInvocations + 1
          /\ dkLastOut' = stdout
          /\ dkLastStatus' = "fail"
          /\ dkFailures' = dkFailures + 1
          /\ dkAllFrontend' =
                (dkAllFrontend /\ is_match(DOCKER_BUILD_FRONTEND_ERROR, stdout))
          /\ IF RetryAllowed(dkRetry, stdout, dkAttempt)
             THEN /\ dkAttempt' = dkAttempt + 1
                  /\ dkResult' = "none"
             ELSE /\ dkAttempt' = dkAttempt
                  /\ dkResult' = "DockerExecution"
    /\ UNCHANGED dkRetry



(***************************************************************************)
(* Part 2.  Server::serve                            pipesys server.rs     *)
(***************************************************************************)

VARIABLES
    svClientUid,  \* self.client_uid
    svPaths,      \* self.paths: "None" or a sequence of paths
    svFds,        \* self.fds: "None" or a sequence of raw descriptors
    svPc,         \* "start" | "accept" | "returned" | "cancelled"
    svServeFds,   \* serve_fds
    svConns       \* the connections made to the socket, in arrival order:
                  \* [uid, st], st = "pending" (not accepted yet) | "rejected"
                  \* | "dropped" | "sending" (send task spawned) | "sent" | "sendfail"

serveVars == <<svClientUid, svPaths, svFds, svPc, svServeFds, svConns>>

\* Expected UID for unprivileged processes inside the build container.
BUILDER_UID == 1000

\* --client-uid 0 of the bypass sidecar's `pipesys serve`.
BYPASS_UID == 0

\* The effective UIDs a connecting peer may have.
PeerUids == {BYPASS_UID, BUILDER_UID, BUILDER_UID + 1}

\* How many clients connect during one run of serve().
MaxConns == 3

\* The descriptor a path is opened at: the lowest one free in the broker.
OpenFd(path, opened) == 5 + Len(opened)

\* Server::for_paths
for_paths(client_uid, paths) ==
    [client_uid |-> client_uid, paths |-> paths, fds |-> "None"]

\* Server::for_fds
for_fds(client_uid, fds) ==
    [client_uid |-> client_uid, paths |-> "None", fds |-> fds]

\* The Server a `pipesys serve` command line parses to: --path and --fd are
\* both optional and independent of each other.
ServeCommandLines ==
    [client_uid : {BYPASS_UID, BUILDER_UID},
     paths : {"None", <<"/bypass">>},
     fds : {"None", <<3, 4>>}]

ServerConfigs ==
    {for_fds(BUILDER_UID, <<3, 4>>), for_paths(BYPASS_UID, <<"/bypass">>)}
        \cup ServeCommandLines

InitServe ==
    /\ \E c \in ServerConfigs :
          /\ svClientUid = c.client_uid
          /\ svPaths = c.paths
          /\ svFds = c.fds
    /\ svPc = "start"
    /\ svServeFds = <<>>
    /\ svConns = <<>>

IdleServe ==
    /\ svClientUid = BUILDER_UID
    /\ svPaths = "None"
    /\ svFds = "None"
    /\ svPc = "start"
    /\ svServeFds = <<>>
    /\ svConns = <<>>

RECURSIVE OpenAll(_, _)
\* The loop over self.paths: one descriptor per path, in order.
OpenAll(paths, opened) ==
    IF paths = <<>> THEN opened
    ELSE OpenAll(Tail(paths), Append(opened, OpenFd(Head(paths), opened)))

\* serve_fds: the opened paths' descriptors, then the raw descriptors.
BuildServeFds(paths, fds) ==
    (IF paths = "None" THEN <<>> ELSE OpenAll(paths, <<>>))
        \o (IF fds = "None" THEN <<>> ELSE fds)

\* serve() up to its loop: bind, open the paths, collect serve_fds.
ServeBind ==
    /\ svPc = "start"
    /\ svServeFds' = BuildServeFds(svPaths, svFds)
    /\ svPc' = "accept"
    /\ UNCHANGED <<svClientUid, svPaths, svFds, svConns>>

\* bind_addr() fails (the address is taken), or a path cannot be opened.
ServeBindFail ==
    /\ svPc = "start"
    /\ svPc' = "returned"
    /\ UNCHANGED <<svClientUid, svPaths, svFds, svServeFds, svConns>>

\* A client connects to the bound socket and waits in the listener's backlog.
ClientConnect ==
    /\ svPc = "accept"
    /\ Len(svConns) < MaxConns
    /\ \E uid \in PeerUids :
          svConns' = Append(svConns, [uid |-> uid, st |-> "pending"])
    /\ UNCHANGED <<svClientUid, svPaths, svFds, svPc, svServeFds>>

\* The connection accept() returns: the oldest one not accepted yet.
NextPending(conns) ==
    CHOOSE i \in 1..Len(conns) :
        /\ conns[i].st = "pending"
        /\ \A j \in 1..(i - 1) : conns[j].st # "pending"

HasPending(conns) == \E i \in 1..Len(conns) : conns[i].st = "pending"

\* What the loop does with an accepted connection whose credentials it has.
HandleNoUidCheck(peer_uid, client_uid) == "sending"

Handle(peer_uid, client_uid) ==
    IF peer_uid # client_uid THEN "rejected" ELSE "sending"

\* Where the loop goes after a connection it turned away.
AfterRejectReturn == "returned"

AfterReject == "accept"

\* Whether the loop is held up by the sends in flight.  The send runs in a
\* task of its own (tokio::spawn) whose handle the loop drops, so it is not.
AwaitsSendInline(conns) == \E i \in 1..Len(conns) : conns[i].st = "sending"

AwaitsSend(conns) == FALSE

\* One turn of the loop: accept, read the peer's credentials, compare the
\* UID, and either drop the connection or spawn the task that sends.
ServeAccept ==
    /\ svPc = "accept"
    /\ HasPending(svConns)
    /\ ~AwaitsSend(svConns)
    /\ LET i == NextPending(svConns)
           st == Handle(svConns[i].uid, svClientUid)
       IN  /\ svConns' = [svConns EXCEPT ![i].st = st]
           /\ svPc' = IF st = "rejected" THEN AfterReject ELSE "accept"
    /\ UNCHANGED <<svClientUid, svPaths, svFds, svServeFds>>

\* One turn of the loop in which accept() returns an error: serve() returns it.
ServeAcceptError ==
    /\ svPc = "accept"
    /\ svPc' = "returned"
    /\ UNCHANGED <<svClientUid, svPaths, svFds, svServeFds, svConns>>

\* One turn of the loop in which initial_peer_credentials() returns an error:
\* the connection is dropped and serve() returns the error.
ServeCredentialsError ==
    /\ svPc = "accept"
    /\ HasPending(svConns)
    /\ LET i == NextPending(svConns)
       IN  svConns' = [svConns EXCEPT ![i].st = "dropped"]
    /\ svPc' = "returned"
    /\ UNCHANGED <<svClientUid, svPaths, svFds, svServeFds>>

\* A spawned task's send_fds completes, or fails; its result is discarded.
SendTask ==
    /\ svPc \in {"accept", "returned"}
    /\ \E i \in 1..Len(svConns) :
          /\ svConns[i].st = "sending"
          /\ \E r \in {"sent", "sendfail"} :
                svConns' = [svConns EXCEPT ![i].st = r]
    /\ UNCHANGED <<svClientUid, svPaths, svFds, svPc, svServeFds>>

\* The parent shuts its runtime down: serve() and the pending sends are dropped.
ServeCancel ==
    /\ svPc \in {"start", "accept"}
    /\ svPc' = "cancelled"
    /\ svConns' = [i \in 1..Len(svConns) |->
                      IF svConns[i].st \in {"pending", "sending"}
                      THEN [svConns[i] EXCEPT !.st = "dropped"]
                      ELSE svConns[i]]
    /\ UNCHANGED <<svClientUid, svPaths, svFds, svServeFds>>


(***************************************************************************)
(* Part 5.  parse_makeflags                          builder.rs 835..887   *)
(*          (placed here because build() calls it)                         *)
(***************************************************************************)

VARIABLES
    mfInput,    \* the text parse_makeflags is called with
    mfPc,       \* "call" | "returned"
    mfResult    \* what parse_makeflags returned; NoResult before it has

makeflagsVars == <<mfInput, mfPc, mfResult>>

\* A text is the sequence of its pieces.  The literal words of the handshake
\* are one piece each; every other character is a piece of its own.
W_J == "-j"
W_FDS == "--jobserver-fds="
W_AUTH == "--jobserver-auth="

DigitChars == {"0", "1", "2", "3", "4", "5", "6", "7", "8", "9"}

DigitValue(c) ==
    CASE c = "0" -> 0 [] c = "1" -> 1 [] c = "2" -> 2 [] c = "3" -> 3
      [] c = "4" -> 4 [] c = "5" -> 5 [] c = "6" -> 6 [] c = "7" -> 7
      [] c = "8" -> 8 [] c = "9" -> 9

\* MAKEFLAGS: the pattern between ^ and $, literal pieces and the four named
\* groups, each of them [0-9]+.
MAKEFLAGS ==
    << [lit |-> W_J], [lit |-> " "], [lit |-> W_FDS],
       [cap |-> "read_fd"], [lit |-> ","], [cap |-> "write_fd"],
       [lit |-> " "], [lit |-> W_AUTH],
       [cap |-> "auth_read_fd"], [lit |-> ","], [cap |-> "auth_write_fd"] >>

CaptureNames == {"read_fd", "write_fd", "auth_read_fd", "auth_write_fd"}

NoCaptures == [n \in CaptureNames |-> <<>>]

RECURSIVE DigitRun(_)
\* How many pieces a greedy [0-9]+ takes from the front of s.
DigitRun(s) ==
    IF s = <<>> \/ Head(s) \notin DigitChars THEN 0
    ELSE 1 + DigitRun(Tail(s))

RECURSIVE capturesUnanchored(_, _, _)
capturesUnanchored(pat, s, caps) ==
    IF pat = <<>> THEN [matched |-> TRUE, caps |-> caps]
    ELSE IF "lit" \in DOMAIN Head(pat)
    THEN IF s # <<>> /\ Head(s) = Head(pat).lit
         THEN capturesUnanchored(Tail(pat), Tail(s), caps)
         ELSE [matched |-> FALSE, caps |-> NoCaptures]
    ELSE LET n == DigitRun(s)
         IN  IF n = 0 THEN [matched |-> FALSE, caps |-> NoCaptures]
             ELSE capturesUnanchored(Tail(pat), SubSeq(s, n + 1, Len(s)),
                           [caps EXCEPT ![Head(pat).cap] = SubSeq(s, 1, n)])

RECURSIVE captures(_, _, _)
\* Regex::captures with the pattern anchored at both ends: the pattern is
\* matched from the first piece and has to use up the text.
captures(pat, s, caps) ==
    IF pat = <<>>
    THEN IF s = <<>> THEN [matched |-> TRUE, caps |-> caps]
         ELSE [matched |-> FALSE, caps |-> NoCaptures]
    ELSE IF "lit" \in DOMAIN Head(pat)
    THEN IF s # <<>> /\ Head(s) = Head(pat).lit
         THEN captures(Tail(pat), Tail(s), caps)
         ELSE [matched |-> FALSE, caps |-> NoCaptures]
    ELSE LET n == DigitRun(s)
         IN  IF n = 0 THEN [matched |-> FALSE, caps |-> NoCaptures]
             ELSE captures(Tail(pat), SubSeq(s, n + 1, Len(s)),
                           [caps EXCEPT ![Head(pat).cap] = SubSeq(s, 1, n)])

\* i32::MAX
I32_MAX == 2147483647

RECURSIVE parse_digits(_, _)
\* The loop of str::parse::<i32> over a run of digits: checked
\* multiplication by ten and checked addition of the digit.
parse_digits(s, acc) ==
    IF s = <<>> THEN [ok |-> TRUE, v |-> acc]
    ELSE LET d == DigitValue(Head(s))
         IN  IF acc > (I32_MAX - d) \div 10 THEN [ok |-> FALSE, v |-> 0]
             ELSE parse_digits(Tail(s), acc * 10 + d)

\* A parse that keeps the low digits of a number that does not fit.
parse_i32Truncating(text) ==
    IF Len(text) > 9 THEN parse_digits(SubSeq(text, Len(text) - 8, Len(text)), 0)
    ELSE parse_digits(text, 0)

\* text.parse::<i32>() for a text of digits
parse_i32(text) ==
    IF text = <<>> THEN [ok |-> FALSE, v |-> 0] ELSE parse_digits(text, 0)

RECURSIVE StripZeros(_)
StripZeros(text) ==
    IF Len(text) >= 2 /\ Head(text) = "0" THEN StripZeros(Tail(text)) ELSE text

\* Equality of the numbers two texts of digits stand for.
str_eqNumeric(a, b) == StripZeros(a) = StripZeros(b)

\* `==` of two &str: the same bytes.
str_eq(a, b) == a = b

NoResult == [kind |-> "none"]

\* parse_makeflags: captures, the two ensure! of identity, the two parses,
\* in the order of its statements.
parse_makeflagsParseFirst(input) ==
    LET c == captures(MAKEFLAGS, input, NoCaptures)
        read_fd == c.caps["read_fd"]
        write_fd == c.caps["write_fd"]
        auth_read_fd == c.caps["auth_read_fd"]
        auth_write_fd == c.caps["auth_write_fd"]
    IN  IF ~c.matched THEN [kind |-> "RegexMatch"]
        ELSE IF ~parse_i32(read_fd).ok
        THEN [kind |-> "FileDescriptorParse", input |-> read_fd]
        ELSE IF ~parse_i32(write_fd).ok
        THEN [kind |-> "FileDescriptorParse", input |-> write_fd]
        ELSE IF ~str_eq(read_fd, auth_read_fd)
        THEN [kind |-> "FileDescriptorMismatch", what |-> "read"]
        ELSE IF ~str_eq(write_fd, auth_write_fd)
        THEN [kind |-> "FileDescriptorMismatch", what |-> "write"]
        ELSE [kind |-> "Ok", read_fd |-> parse_i32(read_fd).v,
              write_fd |-> parse_i32(write_fd).v]

parse_makeflags(input) ==
    LET c == captures(MAKEFLAGS, input, NoCaptures)
        read_fd == c.caps["read_fd"]
        write_fd == c.caps["write_fd"]
        auth_read_fd == c.caps["auth_read_fd"]
        auth_write_fd == c.caps["auth_write_fd"]
    IN  IF ~c.matched THEN [kind |-> "RegexMatch"]
        ELSE IF ~str_eq(read_fd, auth_read_fd)
        THEN [kind |-> "FileDescriptorMismatch", what |-> "read"]
        ELSE IF ~str_eq(write_fd, auth_write_fd)
        THEN [kind |-> "FileDescriptorMismatch", what |-> "write"]
        ELSE IF ~parse_i32(read_fd).ok
        THEN [kind |-> "FileDescriptorParse", input |-> read_fd]
        ELSE IF ~parse_i32(write_fd).ok
        THEN [kind |-> "FileDescriptorParse", input |-> write_fd]
        ELSE [kind |-> "Ok", read_fd |-> parse_i32(read_fd).v,
              write_fd |-> parse_i32(write_fd).v]

\* The descriptor texts the inputs are built from: small ones, one with a
\* leading zero, i32::MAX, i32::MAX + 1 and u64::MAX.
FdTexts ==
    { <<"3">>, <<"4">>, <<"5">>, <<"0">>, <<"0", "3">>,
      <<"2", "1", "4", "7", "4", "8", "3", "6", "4", "7">>,
      <<"2", "1", "4", "7", "4", "8", "3", "6", "4", "8">>,
      <<"1", "8", "4", "4", "6", "7", "4", "4", "0", "7", "3", "7", "0", "9",
        "5", "5", "1", "6", "1", "5">> }

\* format!("-j --jobserver-fds={r},{w} --jobserver-auth={ar},{aw}")
HandshakeText(r, w, ar, aw) ==
    <<W_J, " ", W_FDS>> \o r \o <<",">> \o w \o <<" ", W_AUTH>> \o ar \o <<",">> \o aw

\* Pieces that are no part of any handshake.
StrayPieces == {"x", " ", "\n", "-", ","}

DropAt(s, i) == SubSeq(s, 1, i - 1) \o SubSeq(s, i + 1, Len(s))

InsertAt(s, i, c) == SubSeq(s, 1, i) \o <<c>> \o SubSeq(s, i + 1, Len(s))

\* The texts parse_makeflags is called with: every handshake over FdTexts,
\* and every text one piece away from a handshake whose pairs agree.
MakeflagsInputs ==
    LET agreed == { HandshakeText(r, w, r, w) : r \in FdTexts, w \in FdTexts }
    IN  { HandshakeText(r, w, ar, aw) :
              r \in FdTexts, w \in FdTexts, ar \in FdTexts, aw \in FdTexts }
        \cup { <<>> }
        \cup UNION { { DropAt(s, i) : i \in 1..Len(s) } : s \in agreed }
        \cup UNION { { InsertAt(s, i, c) : i \in 0..Len(s), c \in StrayPieces } :
                        s \in agreed }

InitMakeflags ==
    /\ mfInput \in MakeflagsInputs
    /\ mfPc = "call"
    /\ mfResult = NoResult

IdleMakeflags ==
    /\ mfInput = <<>>
    /\ mfPc = "call"
    /\ mfResult = NoResult

ParseMakeflags ==
    /\ mfPc = "call"
    /\ mfResult' = parse_makeflags(mfInput)
    /\ mfPc' = "returned"
    /\ UNCHANGED mfInput

(***************************************************************************)
(* Part 3.  DockerBuild::build and its background tasks  builder.rs 362..494 *)
(***************************************************************************)

VARIABLES
    bPc,         \* the statement build() executes next; "done" | "failed" at the end
    bResult,     \* "none" | "Ok" | the error build() returned
    bCwd,        \* the process working directory: "caller" | "root"
    bRuntime,    \* the tokio runtime: "none" | "running" | "shutdown"
    bJobs,       \* the task serving the jobserver descriptors:
                 \* "none" | "spawned" | "listening" | "bindfail" | "cancelled"
    bBypass,     \* the task running the bypass sidecar: "none" | "spawned"
                 \* | "cli" (docker run started, no container yet)
                 \* | "container" (container up, pipesys not bound yet)
                 \* | "listening" | "failed" | "removed" | "cancelled"
    bBuildProc,  \* the `docker build` subprocess: "none" | "running" | "exited"
    bAttempt,    \* `attempt` of the docker(&build, Retry::Yes) call
    bBuildResult, \* build_result: "none" | "Ok" | "DockerExecution" | "CommandStart"
    bEnv,        \* CARGO_MAKEFLAGS in the environment of the process
    bCalled,     \* the calls build() has made since docker(&build) returned:
                 \* "rm_bypass", "create", "cp", "rm", "rmi", "copy_build_files"
    bOk          \* those of "create", "cp", "rm", "rmi" that returned Ok

buildVars == <<bPc, bResult, bCwd, bRuntime, bJobs, bBypass, bBuildProc,
               bAttempt, bBuildResult, bEnv, bCalled, bOk>>

\* An environment variable is unset, set to bytes that are no Unicode text,
\* or set to a text.
EnvUnset == [kind |-> "unset"]

EnvNotUnicode == [kind |-> "not_unicode"]

EnvText(t) == [kind |-> "text", value |-> t]

\* A lookup that falls back to a handshake when the variable is not there.
env_varOrDefault(e) ==
    IF e.kind = "text" THEN [ok |-> TRUE, v |-> e.value]
    ELSE [ok |-> TRUE, v |-> HandshakeText(<<"3">>, <<"4">>, <<"3">>, <<"4">>)]

\* env::var: Err(NotPresent), Err(NotUnicode) or Ok(text)
env_var(e) ==
    IF e.kind = "text" THEN [ok |-> TRUE, v |-> e.value] ELSE [ok |-> FALSE, v |-> <<>>]

\* The values of CARGO_MAKEFLAGS build() is run with.
BuildEnvs ==
    { EnvUnset, EnvNotUnicode,
      EnvText(HandshakeText(<<"3">>, <<"4">>, <<"3">>, <<"4">>)),
      EnvText(<<>>),
      EnvText(<<"x">> \o HandshakeText(<<"3">>, <<"4">>, <<"3">>, <<"4">>)),
      EnvText(HandshakeText(<<"3">>, <<"4">>, <<"3">>, <<"4">>) \o <<" ">>),
      EnvText(HandshakeText(<<"3">>, <<"4">>, <<"3">>, <<"4">>) \o <<"\n">>),
      EnvText(<<W_J, " ", W_AUTH, "3", ",", "4">>),
      EnvText(<<W_J, " ", W_FDS, "3", ",", "4">>),
      EnvText(HandshakeText(<<"3">>, <<"x">>, <<"3">>, <<"x">>)),
      EnvText(HandshakeText(<<"3">>, <<"4">>, <<"5">>, <<"4">>)),
      EnvText(HandshakeText(<<"3">>, <<"2", "1", "4", "7", "4", "8", "3", "6", "4", "8">>,
                            <<"3">>, <<"2", "1", "4", "7", "4", "8", "3", "6", "4", "8">>)) }

IdleBuild ==
    /\ bPc = "chdir"
    /\ bResult = "none"
    /\ bCwd = "caller"
    /\ bRuntime = "none"
    /\ bJobs = "none"
    /\ bBypass = "none"
    /\ bBuildProc = "none"
    /\ bAttempt = 1
    /\ bBuildResult = "none"
    /\ bEnv = EnvUnset
    /\ bCalled = {}
    /\ bOk = {}

InitBuild ==
    /\ bEnv \in BuildEnvs
    /\ bPc = "chdir"
    /\ bResult = "none"
    /\ bCwd = "caller"
    /\ bRuntime = "none"
    /\ bJobs = "none"
    /\ bBypass = "none"
    /\ bBuildProc = "none"
    /\ bAttempt = 1
    /\ bBuildResult = "none"
    /\ bCalled = {}
    /\ bOk = {}

\* build() returns the error of a `?`.
Fail(err) ==
    /\ bPc' = "failed"
    /\ bResult' = err

\* env::set_current_dir(&self.root_dir)?
BuildChdir ==
    /\ bPc = "chdir"
    /\ \/ /\ bCwd' = "root"
          /\ bPc' = "marker_dir"
          /\ UNCHANGED bResult
       \/ /\ Fail("DirectoryChange")
          /\ UNCHANGED bCwd
    /\ UNCHANGED <<bRuntime, bJobs, bBypass, bBuildProc, bAttempt, bBuildResult>>
    /\ UNCHANGED bEnv
    /\ UNCHANGED <<bCalled, bOk>>

\* create_marker_dir(..)?
BuildMarkerDir ==
    /\ bPc = "marker_dir"
    /\ \/ bPc' = "clean" /\ UNCHANGED bResult
       \/ Fail("DirectoryCreate")
    /\ UNCHANGED <<bCwd, bRuntime, bJobs, bBypass, bBuildProc, bAttempt, bBuildResult>>
    /\ UNCHANGED bEnv
    /\ UNCHANGED <<bCalled, bOk>>

\* clean_build_files(&marker_dir, &self.artifacts_dir)?
BuildClean ==
    /\ bPc = "clean"
    /\ \/ bPc' = "pre_cleanup" /\ UNCHANGED bResult
       \/ Fail("FileRemove")
    /\ UNCHANGED <<bCwd, bRuntime, bJobs, bBypass, bBuildProc, bAttempt, bBuildResult>>
    /\ UNCHANGED bEnv
    /\ UNCHANGED <<bCalled, bOk>>

\* let _ = docker(&rm_bypass); let _ = docker(&rm); let _ = docker(&rmi);
\* whatever the three commands return, build() goes on.
BuildPreCleanup ==
    /\ bPc = "pre_cleanup"
    /\ bPc' = "makeflags"
    /\ UNCHANGED <<bResult, bCwd, bRuntime, bJobs, bBypass, bBuildProc, bAttempt,
                   bBuildResult>>
    /\ UNCHANGED bEnv
    /\ UNCHANGED <<bCalled, bOk>>

\* env::var(CARGO_MAKEFLAGS)?  and  parse_makeflags(cargo_makeflags)?
BuildMakeflags ==
    /\ bPc = "makeflags"
    /\ LET cargo_makeflags == env_var(bEnv)
       IN  IF ~cargo_makeflags.ok THEN Fail("Environment")
           ELSE IF parse_makeflags(cargo_makeflags.v).kind = "Ok"
           THEN bPc' = "runtime" /\ UNCHANGED bResult
           ELSE Fail(parse_makeflags(cargo_makeflags.v).kind)
    /\ UNCHANGED <<bCwd, bRuntime, bJobs, bBypass, bBuildProc, bAttempt, bBuildResult>>
    /\ UNCHANGED bEnv
    /\ UNCHANGED <<bCalled, bOk>>

\* tokio::runtime::Runtime::new()?
BuildRuntime ==
    /\ bPc = "runtime"
    /\ \/ /\ bRuntime' = "running"
          /\ bPc' = "spawn_jobs"
          /\ UNCHANGED bResult
       \/ /\ Fail("AsyncRuntime")
          /\ UNCHANGED bRuntime
    /\ UNCHANGED <<bCwd, bJobs, bBypass, bBuildProc, bAttempt, bBuildResult>>
    /\ UNCHANGED bEnv
    /\ UNCHANGED <<bCalled, bOk>>

\* runtime.spawn(async move { PipesysServer::for_fds(..).serve().await })
BuildSpawnJobs ==
    /\ bPc = "spawn_jobs"
    /\ bJobs' = "spawned"
    /\ bPc' = "spawn_bypass"
    /\ UNCHANGED <<bResult, bCwd, bRuntime, bBypass, bBuildProc, bAttempt, bBuildResult>>
    /\ UNCHANGED bEnv
    /\ UNCHANGED <<bCalled, bOk>>

\* runtime.spawn(async move { let _ = docker(&run_bypass, Retry::No); })
BuildSpawnBypass ==
    /\ bPc = "spawn_bypass"
    /\ bBypass' = "spawned"
    /\ bPc' = "build"
    /\ UNCHANGED <<bResult, bCwd, bRuntime, bJobs, bBuildProc, bAttempt, bBuildResult>>
    /\ UNCHANGED bEnv
    /\ UNCHANGED <<bCalled, bOk>>

\* docker(&build, Retry::Yes{..}): the loop starts the `docker build`
\* subprocess.  build() calls it right after the two runtime.spawn()s, with
\* no wait on either task.
BuildInvoke ==
    /\ bPc = "build"
    /\ bBuildProc \in {"none", "exited"}
    /\ \/ /\ bBuildProc' = "running"
          /\ UNCHANGED <<bPc, bBuildResult>>
       \/ /\ bBuildResult' = "CommandStart"
          /\ bPc' = "rm_bypass"
          /\ UNCHANGED bBuildProc
    /\ UNCHANGED <<bResult, bCwd, bRuntime, bJobs, bBypass, bAttempt>>
    /\ UNCHANGED bEnv
    /\ UNCHANGED <<bCalled, bOk>>

\* The subprocess exits; the loop returns or goes round again.
BuildExit ==
    /\ bPc = "build"
    /\ bBuildProc = "running"
    /\ bBuildProc' = "exited"
    /\ \/ /\ bBuildResult' = "Ok"
          /\ bPc' = "rm_bypass"
          /\ UNCHANGED bAttempt
       \/ \E stdout \in DockerOutputs :
             IF RetryAllowed("Yes", stdout, bAttempt)
             THEN /\ bAttempt' = bAttempt + 1
                  /\ UNCHANGED <<bPc, bBuildResult>>
             ELSE /\ bBuildResult' = "DockerExecution"
                  /\ bPc' = "rm_bypass"
                  /\ UNCHANGED bAttempt
    /\ UNCHANGED <<bResult, bCwd, bRuntime, bJobs, bBypass>>
    /\ UNCHANGED bEnv
    /\ UNCHANGED <<bCalled, bOk>>

\* let _ = docker(&rm_bypass, Retry::No): `docker rm --force` removes the
\* sidecar container when there is one; its result is ignored.
BuildRmBypass ==
    /\ bPc = "rm_bypass"
    /\ \/ bBypass' = IF bBypass \in {"container", "listening"} THEN "removed" ELSE bBypass
       \/ UNCHANGED bBypass
    /\ bPc' = "shutdown"
    /\ UNCHANGED <<bResult, bCwd, bRuntime, bJobs, bBuildProc, bAttempt, bBuildResult>>
    /\ UNCHANGED bEnv
    /\ bCalled' = bCalled \cup {"rm_bypass"}
    /\ UNCHANGED bOk

\* runtime.shutdown_background(): tasks are dropped at their next await; a
\* task inside a blocking call is not waited for.
BuildShutdown ==
    /\ bPc = "shutdown"
    /\ bRuntime' = "shutdown"
    /\ bJobs' = IF bJobs \in {"spawned", "listening"} THEN "cancelled" ELSE bJobs
    /\ bBypass' = IF bBypass = "spawned" THEN "cancelled" ELSE bBypass
    /\ bPc' = "check"
    /\ UNCHANGED <<bResult, bCwd, bBuildProc, bAttempt, bBuildResult>>
    /\ UNCHANGED bEnv
    /\ UNCHANGED <<bCalled, bOk>>

\* What `?` does with a Result: it goes on when the Result is Ok, and
\* returns the error otherwise.
IsOkAlways(result) == TRUE

IsOk(result) == result = "Ok"

\* build_result?
BuildCheck ==
    /\ bPc = "check"
    /\ IF IsOk(bBuildResult)
       THEN bPc' = "create" /\ UNCHANGED bResult
       ELSE Fail(bBuildResult)
    /\ UNCHANGED <<bCwd, bRuntime, bJobs, bBypass, bBuildProc, bAttempt, bBuildResult>>
    /\ UNCHANGED bEnv
    /\ UNCHANGED <<bCalled, bOk>>

\* docker(&create)?  docker(&cp)?  docker(&rm)?  docker(&rmi)?
BuildHarvest ==
    /\ bPc \in {"create", "cp", "rm", "rmi"}
    /\ \/ /\ bPc' = CASE bPc = "create" -> "cp"
                      [] bPc = "cp" -> "rm"
                      [] bPc = "rm" -> "rmi"
                      [] bPc = "rmi" -> "copy"
          /\ bOk' = bOk \cup {bPc}
          /\ UNCHANGED bResult
       \/ /\ \E e \in {"DockerExecution", "CommandStart"} : Fail(e)
          /\ UNCHANGED bOk
    /\ UNCHANGED <<bCwd, bRuntime, bJobs, bBypass, bBuildProc, bAttempt, bBuildResult>>
    /\ UNCHANGED bEnv
    /\ bCalled' = bCalled \cup {bPc}

\* copy_build_files(&marker_dir, &self.artifacts_dir)?  Ok(())
BuildCopy ==
    /\ bPc = "copy"
    /\ \/ bPc' = "done" /\ bResult' = "Ok"
       \/ \E e \in {"FileCreate", "DirectoryCreate", "FileRename"} : Fail(e)
    /\ UNCHANGED <<bCwd, bRuntime, bJobs, bBypass, bBuildProc, bAttempt, bBuildResult>>
    /\ UNCHANGED bEnv
    /\ bCalled' = bCalled \cup {"copy_build_files"}
    /\ UNCHANGED bOk

\* The jobserver task runs serve() up to its loop: the bind succeeds or fails.
JobsBind ==
    /\ bJobs = "spawned"
    /\ bRuntime = "running"
    /\ bJobs' \in {"listening", "bindfail"}
    /\ UNCHANGED <<bPc, bResult, bCwd, bRuntime, bBypass, bBuildProc, bAttempt,
                   bBuildResult>>
    /\ UNCHANGED bEnv
    /\ UNCHANGED <<bCalled, bOk>>

\* The bypass task calls docker(&run_bypass): the `docker run` starts or not.
BypassRun ==
    /\ bBypass = "spawned"
    /\ bRuntime = "running"
    /\ bBypass' \in {"cli", "failed"}
    /\ UNCHANGED <<bPc, bResult, bCwd, bRuntime, bJobs, bBuildProc, bAttempt,
                   bBuildResult>>
    /\ UNCHANGED bEnv
    /\ UNCHANGED <<bCalled, bOk>>

\* `docker run` creates the sidecar container, or fails.
BypassContainer ==
    /\ bBypass = "cli"
    /\ bBypass' \in {"container", "failed"}
    /\ UNCHANGED <<bPc, bResult, bCwd, bRuntime, bJobs, bBuildProc, bAttempt,
                   bBuildResult>>
    /\ UNCHANGED bEnv
    /\ UNCHANGED <<bCalled, bOk>>

\* `pipesys serve` inside the sidecar binds its socket, or fails and exits.
BypassBind ==
    /\ bBypass = "container"
    /\ bBypass' \in {"listening", "failed"}
    /\ UNCHANGED <<bPc, bResult, bCwd, bRuntime, bJobs, bBuildProc, bAttempt,
                   bBuildResult>>
    /\ UNCHANGED bEnv
    /\ UNCHANGED <<bCalled, bOk>>


(***************************************************************************)
(* Part 4.  The marker directory and the output directory                  *)
(*          create_marker_dir, copy_build_files, clean_build_files,        *)
(*          find_files                                  builder.rs 592..758 *)
(***************************************************************************)

VARIABLES
    fsOut,       \* the tree under the output directory (artifacts_dir)
    fsMk,        \* the tree under the marker directory
    fsPc,        \* "idle" | "clean" | "cleaned" | "copy" | "done" | "failed"
    fsFailedAt,  \* the step a failed build() stopped at: "none" | "clean" | "container" | "copy"
    fsTodo,      \* the files the running find_files() walk has still to yield
    fsCleanDirs, \* clean_dirs of clean_build_files: <<tree, path>> pairs
    fsBuilds,    \* how many times build() has been called
    fsPreOut,    \* fsOut as clean_build_files found it (kept until the build goes on)
    fsPreMk,     \* fsMk as clean_build_files found it
    fsPlaced,    \* the paths this build() has renamed into the output directory
    fsFiles,     \* what `docker cp` of this build() found under /output
    fsAttempt,   \* `attempt` of docker(&build, Retry::Yes) while it runs, else 0
    fsRetried,   \* whether docker(&build, ..) of this build() went round its loop
    fsCleaned,   \* the two trees as clean_build_files left them
    fsLast       \* the previous call of build(): its inputs and what it left

fsVars == <<fsOut, fsMk, fsPc, fsFailedAt, fsTodo, fsCleanDirs, fsBuilds,
            fsPreOut, fsPreMk, fsPlaced, fsFiles, fsAttempt, fsRetried,
            fsCleaned, fsLast>>

\* A file name is the sequence of its dot-separated parts: b.rpm is
\* <<"b", "rpm">>.  A path is a sequence of names, relative to the root of
\* its tree; <<>> is the root.  A tree maps each path that exists to its
\* kind: "dir", "file" or "symlink_dir" (a symbolic link to a directory).
MARKER_EXTENSION == "buildsys_marker"

\* s.ends_with(MARKER_EXTENSION)
ends_with_marker(name) ==
    Len(name) >= 2 /\ name[Len(name)] = MARKER_EXTENSION

\* OsString::push(MARKER_EXTENSION)
push_marker(name) == Append(name, MARKER_EXTENSION)

\* PathBuf::set_extension(""): the part after the last dot goes, unless the
\* name has no dot or only a leading one.
set_extension_empty(name) ==
    IF Len(name) >= 2 /\ ~(Len(name) = 2 /\ name[1] = "")
    THEN SubSeq(name, 1, Len(name) - 1)
    ELSE name

Parent(p) == SubSeq(p, 1, Len(p) - 1)

LastName(p) == p[Len(p)]

\* The path with its last name replaced.
WithLastName(p, name) == [p EXCEPT ![Len(p)] = name]

\* The proper ancestors of p, the root included.
Ancestors(p) == { SubSeq(p, 1, i) : i \in 0..(Len(p) - 1) }

Put(t, p, k) == [q \in (DOMAIN t) \cup {p} |-> IF q = p THEN k ELSE t[q]]

Del(t, p) == [q \in (DOMAIN t) \ {p} |-> t[q]]

EmptyTree == [q \in { <<>> } |-> "dir"]

\* Path::is_dir() follows symbolic links.
is_dir(t, p) == p \in DOMAIN t /\ t[p] \in {"dir", "symlink_dir"}

Children(t, d) == { q \in DOMAIN t : Len(q) = Len(d) + 1 /\ Parent(q) = d }

\* The marker path of an artifact, as copy_build_files computes it.
MarkerOfReplacingExtension(p) ==
    WithLastName(p, push_marker(set_extension_empty(LastName(p))))

MarkerOf(p) == WithLastName(p, push_marker(LastName(p)))

\* The output path of a marker, as clean_build_files computes it.
OutputOf(m) == WithLastName(m, set_extension_empty(LastName(m)))

\* The filter of clean_build_files.
has_markersFilesOnly(t, p) ==
    t[p] = "file" /\ ends_with_marker(LastName(p))

has_markers(t, p) ==
    \/ is_dir(t, p)
    \/ (t[p] = "file" /\ ends_with_marker(LastName(p)))

\* The filter of copy_build_files.
has_artifacts(t, p) ==
    \/ is_dir(t, p)
    \/ (t[p] = "file" /\ ~ends_with_marker(LastName(p)))
    \/ t[p] = "symlink_dir"

\* The filter function find_files is called with, by name.
apply_filter(filter, t, p) ==
    IF filter = "has_markers" THEN has_markers(t, p) ELSE has_artifacts(t, p)

\* find_files: WalkDir below the root, not following links, pruning what
\* the filter turns away, keeping what is a file or a symbolic link.
find_files(t, filter) ==
    { p \in DOMAIN t :
        /\ Len(p) >= 1
        /\ \A i \in 1..Len(p) : apply_filter(filter, t, SubSeq(p, 1, i))
        /\ t[p] \in {"file", "symlink_dir"} }

\* The order of path components (bytewise on the names the model uses).
PartRank(s) ==
    CASE s = "" -> 0
      [] s = "a" -> 1
      [] s = "b" -> 2
      [] s = MARKER_EXTENSION -> 3
      [] s = "c" -> 4
      [] s = "f" -> 5
      [] s = "k" -> 6
      [] s = "rpm" -> 7
      [] s = "z" -> 8

PartLess(a, b) == PartRank(a) < PartRank(b)

RECURSIVE NameLess(_, _)
\* Lexicographic order of two names, part by part.
NameLess(x, y) ==
    IF x = <<>> THEN y # <<>>
    ELSE IF y = <<>> THEN FALSE
    ELSE IF Head(x) = Head(y) THEN NameLess(Tail(x), Tail(y))
    ELSE PartLess(Head(x), Head(y))

RECURSIVE PathLess(_, _)
\* Lexicographic order of two paths, component by component.
PathLess(x, y) ==
    IF x = <<>> THEN y # <<>>
    ELSE IF y = <<>> THEN FALSE
    ELSE IF Head(x) = Head(y) THEN PathLess(Tail(x), Tail(y))
    ELSE NameLess(Head(x), Head(y))

\* The output directory sorts before the state directory.
TreeRank(tree) == IF tree = "out" THEN 1 ELSE 2

\* PathBuf's Ord, on <<tree, path>> pairs.
DirLess(x, y) ==
    IF x[1] # y[1] THEN TreeRank(x[1]) < TreeRank(y[1])
    ELSE PathLess(x[2], y[2])

RECURSIVE SortAscending(_)
SortAscending(S) ==
    IF S = {} THEN <<>>
    ELSE LET least == CHOOSE x \in S : \A y \in S : y = x \/ DirLess(x, y)
         IN  <<least>> \o SortAscending(S \ {least})

RECURSIVE SortDescending(_)
\* clean_dirs.sort_by(|a, b| b.cmp(a))
SortDescending(S) ==
    IF S = {} THEN <<>>
    ELSE LET greatest == CHOOSE x \in S : \A y \in S : y = x \/ DirLess(y, x)
         IN  <<greatest>> \o SortDescending(S \ {greatest})

\* The parents cleanup() records for a removed file: every ancestor below `top`.
CleanupParents(tree, p) == { <<tree, d>> : d \in Ancestors(p) \ { <<>> } }

\* cleanup(path, top, dirs): a missing path is fine; an existing one is
\* removed with remove_file, which fails on a directory (or when io_ok is
\* FALSE, for any other I/O error).
cleanupCreating(tree, t, p, dirs, io_ok) ==
    [ok |-> TRUE, t |-> Put(t, p, "file"), dirs |-> dirs]

cleanup(tree, t, p, dirs, io_ok) ==
    IF p \notin DOMAIN t THEN [ok |-> TRUE, t |-> t, dirs |-> dirs]
    ELSE IF t[p] = "dir" \/ ~io_ok THEN [ok |-> FALSE, t |-> t, dirs |-> dirs]
    ELSE [ok |-> TRUE, t |-> Del(t, p), dirs |-> dirs \cup CleanupParents(tree, p)]

\* is_empty_dir
is_empty_dir(t, d) == is_dir(t, d) /\ Children(t, d) = {}

RECURSIVE RemoveEmptyDirs(_, _)
\* The last loop of clean_build_files over the sorted clean_dirs; `trees` is
\* [out |-> .., mk |-> ..].
RemoveEmptyDirs(sorted, trees) ==
    IF sorted = <<>> THEN trees
    ELSE LET tree == Head(sorted)[1]
             d == Head(sorted)[2]
             after == IF is_empty_dir(trees[tree], d)
                      THEN [trees EXCEPT ![tree] = Del(trees[tree], d)]
                      ELSE trees
         IN  RemoveEmptyDirs(Tail(sorted), after)

\* fs::create_dir_all: fails when a component is there and is no directory.
create_dir_all(t, d) ==
    LET chain == Ancestors(d) \cup {d}
    IN  IF \E q \in chain : q \in DOMAIN t /\ ~is_dir(t, q)
        THEN [ok |-> FALSE, t |-> t]
        ELSE [ok |-> TRUE,
              t |-> [q \in (DOMAIN t) \cup chain |->
                        IF q \in DOMAIN t THEN t[q] ELSE "dir"]]

\* File::create(&marker_file): creates or truncates; fails on a directory.
CreateMarkerSkipped(t, m) == [ok |-> TRUE, t |-> t]

CreateMarker(t, m) ==
    IF is_dir(t, m) THEN [ok |-> FALSE, t |-> t]
    ELSE [ok |-> TRUE, t |-> Put(t, m, "file")]

\* The files a container may leave under /output, and the files other
\* builds may have left in the shared output directory.
ArtifactPaths ==
    { << <<"a">>, <<"b", "rpm">> >>,
      << <<"a">>, <<"c">>, <<"z">> >>,
      << <<"k">> >> }

ForeignPaths ==
    { << <<"a">>, <<"f">> >>,
      << <<"k">> >> }

\* The artifact a container may ship as a symbolic link to a directory.
LinkPath == << <<"k">> >>

\* How many times build() is called on the same pair of directories.
MaxBuilds == 3

RECURSIVE PutAll(_, _, _)
\* `docker cp <tag>:/output/. <marker_dir>`: every file of `files` (path ->
\* kind) lands in t with the directories above it.
PutAll(t, files, todo) ==
    IF todo = {} THEN t
    ELSE LET p == CHOOSE x \in todo : TRUE
         IN  PutAll(Put(create_dir_all(t, Parent(p)).t, p, files[p]), files, todo \ {p})

\* What the container of one build holds under /output.
ContainerOutputs ==
    { [p \in S |-> IF p = LinkPath /\ link THEN "symlink_dir" ELSE "file"] :
        S \in SUBSET ArtifactPaths, link \in BOOLEAN }

\* The empty map from paths to kinds: a container with nothing under /output.
NoFiles == [p \in {} |-> "file"]

\* clean_build_files has not returned.
NoClean == [out |-> EmptyTree, mk |-> EmptyTree]

\* No earlier call of build().
NoBuild == [ok |-> FALSE, files |-> NoFiles, out |-> EmptyTree, mk |-> EmptyTree]

\* What a failed invocation of `docker build` does to a tree: it is given
\* the context, the target, the tag and build arguments, and no path of the
\* marker directory or of the output directory, so the tree stays as it was.
FailedAttemptLeavesFile(t) == Put(t, << <<"f">> >>, "file")

FailedAttempt(t) == t

InitFs ==
    /\ \E S \in SUBSET ForeignPaths :
          fsOut = PutAll(EmptyTree, [p \in S |-> "file"], S)
    /\ fsFiles = NoFiles
    /\ fsAttempt = 0
    /\ fsRetried = FALSE
    /\ fsCleaned = NoClean
    /\ fsLast = NoBuild
    /\ fsMk = EmptyTree
    /\ fsPc = "idle"
    /\ fsFailedAt = "none"
    /\ fsTodo = {}
    /\ fsCleanDirs = {}
    /\ fsBuilds = 0
    /\ fsPreOut = EmptyTree
    /\ fsPreMk = EmptyTree
    /\ fsPlaced = {}

IdleFs ==
    /\ fsOut = EmptyTree
    /\ fsFiles = NoFiles
    /\ fsAttempt = 0
    /\ fsRetried = FALSE
    /\ fsCleaned = NoClean
    /\ fsLast = NoBuild
    /\ fsMk = EmptyTree
    /\ fsPc = "idle"
    /\ fsFailedAt = "none"
    /\ fsTodo = {}
    /\ fsCleanDirs = {}
    /\ fsBuilds = 0
    /\ fsPreOut = EmptyTree
    /\ fsPreMk = EmptyTree
    /\ fsPlaced = {}

\* build() is called: create_marker_dir, then clean_build_files starts its
\* walk of the marker directory.
FsStartBuild ==
    /\ fsPc \in {"idle", "done", "failed"}
    /\ fsBuilds < MaxBuilds
    /\ fsBuilds' = fsBuilds + 1
    /\ fsMk' = create_dir_all(fsMk, <<>>).t
    /\ fsPc' = "clean"
    /\ fsFailedAt' = "none"
    /\ fsTodo' = find_files(fsMk, "has_markers")
    /\ fsCleanDirs' = {}
    /\ fsPreOut' = fsOut
    /\ fsPreMk' = fsMk
    /\ fsPlaced' = {}
    /\ fsFiles' = NoFiles
    /\ fsAttempt' = 0
    /\ fsRetried' = FALSE
    /\ fsCleaned' = NoClean
    /\ fsLast' = IF fsPc = "done"
                 THEN [ok |-> TRUE, files |-> fsFiles, out |-> fsOut, mk |-> fsMk]
                 ELSE NoBuild
    /\ UNCHANGED fsOut

\* One turn of the first loop of clean_build_files, for one marker the walk
\* yields: remove the output file, then the marker.
FsCleanMarker ==
    /\ fsPc = "clean"
    /\ \E m \in fsTodo : \E io1 \in BOOLEAN, io2 \in BOOLEAN :
          LET r1 == cleanup("out", fsOut, OutputOf(m), fsCleanDirs, io1)
              r2 == cleanup("mk", fsMk, m, r1.dirs, io2)
          IN  IF ~r1.ok
              THEN /\ fsPc' = "failed"
                   /\ fsFailedAt' = "clean"
                   /\ fsTodo' = {}
                   /\ UNCHANGED <<fsOut, fsMk, fsCleanDirs>>
              ELSE IF ~r2.ok
              THEN /\ fsPc' = "failed"
                   /\ fsFailedAt' = "clean"
                   /\ fsTodo' = {}
                   /\ fsOut' = r1.t
                   /\ fsCleanDirs' = r1.dirs
                   /\ UNCHANGED fsMk
              ELSE /\ fsOut' = r1.t
                   /\ fsMk' = r2.t
                   /\ fsCleanDirs' = r2.dirs
                   /\ fsTodo' = fsTodo \ {m}
                   /\ UNCHANGED <<fsPc, fsFailedAt>>
    /\ UNCHANGED <<fsBuilds, fsPreOut, fsPreMk, fsPlaced, fsFiles, fsAttempt,
                   fsRetried, fsCleaned, fsLast>>

\* The walk is over: sort clean_dirs, remove those that are empty, return Ok.
FsCleanDirs ==
    /\ fsPc = "clean"
    /\ fsTodo = {}
    /\ LET trees == RemoveEmptyDirs(SortDescending(fsCleanDirs),
                                    [out |-> fsOut, mk |-> fsMk])
       IN  /\ fsOut' = trees.out
           /\ fsMk' = trees.mk
           /\ fsCleaned' = trees
    /\ fsCleanDirs' = {}
    /\ fsPc' = "cleaned"
    /\ fsAttempt' = 1
    /\ UNCHANGED <<fsFailedAt, fsTodo, fsBuilds, fsPreOut, fsPreMk, fsPlaced,
                   fsFiles, fsRetried, fsLast>>

\* One invocation of `docker build` in the loop of docker(&build, Retry::Yes)
\* fails with output that matches a retry message, before the last attempt:
\* the loop goes round.
FsBuildRetry ==
    /\ fsPc = "cleaned"
    /\ IF \E stdout \in DockerOutputs : RetryAllowed("Yes", stdout, fsAttempt)
       THEN fsAttempt' = fsAttempt + 1
       ELSE FALSE
    /\ fsRetried' = TRUE
    /\ fsMk' = FailedAttempt(fsMk)
    /\ fsOut' = FailedAttempt(fsOut)
    /\ UNCHANGED <<fsPc, fsFailedAt, fsTodo, fsCleanDirs, fsBuilds, fsPreOut,
                   fsPreMk, fsPlaced, fsFiles, fsCleaned, fsLast>>

\* From the last invocation of `docker build` to copy_build_files: the
\* invocation, then create / cp / rm / rmi.  Either build() fails before
\* `docker cp` wrote anything, or it fails after `docker cp` left the
\* container's files in the marker directory, or all of it succeeds and
\* copy_build_files starts its walk.
FsContainer ==
    /\ fsPc = "cleaned"
    /\ \/ /\ fsPc' = "failed"
          /\ fsFailedAt' = "container"
          /\ fsMk' = FailedAttempt(fsMk)
          /\ fsOut' = FailedAttempt(fsOut)
          /\ UNCHANGED <<fsTodo, fsFiles>>
       \/ \E files \in ContainerOutputs : \E harvested \in BOOLEAN :
             LET mk == PutAll(fsMk, files, DOMAIN files)
             IN  /\ fsMk' = mk
                 /\ fsFiles' = files
                 /\ UNCHANGED fsOut
                 /\ IF harvested
                    THEN /\ fsPc' = "copy"
                         /\ fsTodo' = find_files(mk, "has_artifacts")
                         /\ UNCHANGED fsFailedAt
                    ELSE /\ fsPc' = "failed"
                         /\ fsFailedAt' = "container"
                         /\ UNCHANGED fsTodo
    /\ fsPreOut' = EmptyTree
    /\ fsPreMk' = EmptyTree
    /\ fsAttempt' = 0
    /\ UNCHANGED <<fsCleanDirs, fsBuilds, fsPlaced, fsRetried, fsCleaned, fsLast>>

\* One turn of the loop of copy_build_files, for one artifact the walk
\* yields: create its marker, create the output parent, rename it into place.
FsCopyFile ==
    /\ fsPc = "copy"
    /\ \E p \in fsTodo : \E io_ok \in BOOLEAN :
          LET marked == CreateMarker(fsMk, MarkerOf(p))
              parent == create_dir_all(fsOut, Parent(p))
              renamed == parent.ok /\ io_ok
                            /\ ~(p \in DOMAIN parent.t /\ parent.t[p] = "dir")
          IN  IF ~marked.ok
              THEN /\ fsPc' = "failed"
                   /\ fsFailedAt' = "copy"
                   /\ fsTodo' = {}
                   /\ UNCHANGED <<fsOut, fsMk, fsPlaced>>
              ELSE IF ~renamed
              THEN /\ fsPc' = "failed"
                   /\ fsFailedAt' = "copy"
                   /\ fsTodo' = {}
                   /\ fsMk' = marked.t
                   /\ fsOut' = parent.t
                   /\ UNCHANGED fsPlaced
              ELSE /\ fsMk' = Del(marked.t, p)
                   /\ fsOut' = Put(parent.t, p, fsMk[p])
                   /\ fsPlaced' = fsPlaced \cup {p}
                   /\ fsTodo' = fsTodo \ {p}
                   /\ UNCHANGED <<fsPc, fsFailedAt>>
    /\ UNCHANGED <<fsCleanDirs, fsBuilds, fsPreOut, fsPreMk, fsFiles, fsAttempt,
                   fsRetried, fsCleaned, fsLast>>

\* The walk of copy_build_files is over: build() returns Ok(()).
FsCopyDone ==
    /\ fsPc = "copy"
    /\ fsTodo = {}
    /\ fsPc' = "done"
    /\ UNCHANGED <<fsOut, fsMk, fsFailedAt, fsTodo, fsCleanDirs, fsBuilds,
                   fsPreOut, fsPreMk, fsPlaced, fsFiles, fsAttempt, fsRetried,
                   fsCleaned, fsLast>>



(***************************************************************************)
(* Part 6.  fetch_fds and duplicate_fd               pipesys cmd/mod.rs     *)
(***************************************************************************)

VARIABLES
    ffOpen,     \* the descriptor numbers open in the client process
    ffWanted,   \* the argument `wanted`
    ffPc,       \* "connect" | "recv" | "ensure" | "dup" | "returned"
    ffSock,     \* the descriptor of `client`, the connected socket; -1 when none
    ffBuf,      \* fd_buf
    ffFds,      \* `fds`, the count recv_fds returned
    ffNext,     \* the index of fd_buf the loop looks at next
    ffDup,      \* dupfds
    ffResult    \* "none" | "Ok" | "Err"

fetchVars == <<ffOpen, ffWanted, ffPc, ffSock, ffBuf, ffFds, ffNext, ffDup, ffResult>>

\* The descriptor of stdin, the lowest number there is.
STDIN_FD == 0

\* const MIN_FD: i32 = 3
MIN_FD == 3

\* The length of fd_buf.
FD_BUF_LEN == 8

\* The process may hold the descriptors 0 .. NoFile - 1.
NoFile == 8

\* The most descriptors a server sends in one message.
MaxSent == 3

\* The descriptor tables a client starts with: any of stdin, stdout, stderr
\* and one more file may be open.
ClientTables == SUBSET {0, 1, 2, 3}

HasFree(open, min) == \E f \in min..(NoFile - 1) : f \notin open

\* The kernel gives a new descriptor the lowest free number from `min` up.
LowestFree(open, min) ==
    CHOOSE f \in min..(NoFile - 1) :
        f \notin open /\ \A g \in min..(f - 1) : g \in open

RECURSIVE recv_fds(_, _, _)
\* recv_fds: the kernel installs each descriptor of the message at the lowest
\* free number of the receiver, in order, into fd_buf; what does not fit in
\* the buffer or in the table is dropped.
recv_fds(open, buf, k) ==
    LET n == Cardinality({ i \in 1..Len(buf) : buf[i] # -1 })
    IN  IF k = 0 \/ n = Len(buf) \/ ~HasFree(open, STDIN_FD)
        THEN [open |-> open, buf |-> buf, fds |-> n]
        ELSE LET f == LowestFree(open, STDIN_FD)
             IN  recv_fds(open \cup {f}, [buf EXCEPT ![n + 1] = f], k - 1)

\* fcntl(fd, F_DUPFD(MIN_FD))
duplicate_fd(open, fd) ==
    IF fd \in open /\ HasFree(open, MIN_FD)
    THEN [ok |-> TRUE, fd |-> LowestFree(open, MIN_FD)]
    ELSE [ok |-> FALSE, fd |-> -1]

InitFetch ==
    /\ ffOpen \in ClientTables
    /\ ffWanted \in {1, 2}
    /\ ffPc = "connect"
    /\ ffSock = -1
    /\ ffBuf = [i \in 1..FD_BUF_LEN |-> -1]
    /\ ffFds = 0
    /\ ffNext = 1
    /\ ffDup = <<>>
    /\ ffResult = "none"

IdleFetch ==
    /\ ffOpen = {0, 1, 2}
    /\ ffWanted = 2
    /\ ffPc = "connect"
    /\ ffSock = -1
    /\ ffBuf = [i \in 1..FD_BUF_LEN |-> -1]
    /\ ffFds = 0
    /\ ffNext = 1
    /\ ffDup = <<>>
    /\ ffResult = "none"

\* fetch_fds returns: `client` is dropped, which closes the socket.
FetchReturn(result, open) ==
    /\ ffPc' = "returned"
    /\ ffResult' = result
    /\ ffOpen' = open \ {ffSock}
    /\ ffSock' = -1

\* UnixSocketAddr::from_abstract(..)?  UnixSeqpacketConn::connect_unix_addr(..)?
FetchConnect ==
    /\ ffPc = "connect"
    /\ \/ /\ HasFree(ffOpen, STDIN_FD)
          /\ ffSock' = LowestFree(ffOpen, STDIN_FD)
          /\ ffOpen' = ffOpen \cup {LowestFree(ffOpen, STDIN_FD)}
          /\ ffPc' = "recv"
          /\ UNCHANGED ffResult
       \/ FetchReturn("Err", ffOpen)
    /\ UNCHANGED <<ffWanted, ffBuf, ffFds, ffNext, ffDup>>

\* client.recv_fds(&mut [0u8; 1], &mut fd_buf)?
FetchRecv ==
    /\ ffPc = "recv"
    /\ \/ \E sent \in 0..MaxSent :
             LET r == recv_fds(ffOpen, ffBuf, sent)
             IN  /\ ffOpen' = r.open
                 /\ ffBuf' = r.buf
                 /\ ffFds' = r.fds
                 /\ ffPc' = "ensure"
                 /\ UNCHANGED <<ffSock, ffResult>>
       \/ /\ FetchReturn("Err", ffOpen)
          /\ UNCHANGED <<ffBuf, ffFds>>
    /\ UNCHANGED <<ffWanted, ffNext, ffDup>>

\* ensure!(fds == wanted, ..)
FetchEnsure ==
    /\ ffPc = "ensure"
    /\ IF ffFds = ffWanted
       THEN /\ ffPc' = "dup"
            /\ UNCHANGED <<ffOpen, ffSock, ffResult>>
       ELSE FetchReturn("Err", ffOpen)
    /\ UNCHANGED <<ffWanted, ffBuf, ffFds, ffNext, ffDup>>

\* One turn of `for fd in fd_buf.iter().filter(|fd| **fd >= MIN_FD)`: an
\* entry below MIN_FD is passed over, any other is duplicated and pushed.
FetchDuplicate ==
    /\ ffPc = "dup"
    /\ ffNext <= FD_BUF_LEN
    /\ IF ffBuf[ffNext] >= MIN_FD
       THEN LET d == duplicate_fd(ffOpen, ffBuf[ffNext])
            IN  \/ /\ d.ok
                   /\ ffDup' = Append(ffDup, d.fd)
                   /\ ffOpen' = ffOpen \cup {d.fd}
                   /\ ffNext' = ffNext + 1
                   /\ UNCHANGED <<ffPc, ffSock, ffResult>>
                \/ /\ ~d.ok
                   /\ FetchReturn("Err", ffOpen)
                   /\ UNCHANGED <<ffDup, ffNext>>
       ELSE /\ ffNext' = ffNext + 1
            /\ UNCHANGED <<ffOpen, ffPc, ffSock, ffResult, ffDup>>
    /\ UNCHANGED <<ffWanted, ffBuf, ffFds>>

\* Ok(dupfds)
FetchOk ==
    /\ ffPc = "dup"
    /\ ffNext > FD_BUF_LEN
    /\ FetchReturn("Ok", ffOpen)
    /\ UNCHANGED <<ffWanted, ffBuf, ffFds, ffNext, ffDup>>

(***************************************************************************)
(* Part 7.  Make::execute                            pipesys cmd/make.rs   *)
(***************************************************************************)

VARIABLES
    exFetched,    \* what fetch_fds(&self.fd_socket, 2) returns
    exCommand,    \* self.command
    exPc,         \* "fetch" | "format" | "exec" | "execed" | "returned" | "panicked"
    exMakeflags,  \* the local `makeflags`
    exEnv         \* CARGO_MAKEFLAGS and MAKEFLAGS of the executed command

makeVars == <<exFetched, exCommand, exPc, exMakeflags, exEnv>>

\* The digit a value below ten is written as.
DigitChar(d) ==
    CASE d = 0 -> "0" [] d = 1 -> "1" [] d = 2 -> "2" [] d = 3 -> "3"
      [] d = 4 -> "4" [] d = 5 -> "5" [] d = 6 -> "6" [] d = 7 -> "7"
      [] d = 8 -> "8" [] d = 9 -> "9"

RECURSIVE ToDigits(_)
\* The decimal digits of a non-negative number, without leading zeros.
ToDigits(n) ==
    IF n < 10 THEN <<DigitChar(n)>>
    ELSE Append(ToDigits(n \div 10), DigitChar(n % 10))

\* Display of an i32, as format!("{fd}") writes it.
Display(n) == IF n < 0 THEN <<"-">> \o ToDigits(0 - n) ELSE ToDigits(n)

\* format!("-j --jobserver-fds={read_fd},{write_fd}
\*          --jobserver-auth={read_fd},{write_fd}")
makeflagsAuthSwapped(read_fd, write_fd) ==
    HandshakeText(Display(read_fd), Display(write_fd),
                  Display(write_fd), Display(read_fd))

makeflags(read_fd, write_fd) ==
    HandshakeText(Display(read_fd), Display(write_fd),
                  Display(read_fd), Display(write_fd))

\* The descriptors fetch_fds may return: duplicate_fd gives numbers from
\* MIN_FD up; RawFd is an i32.
MakeFds == {MIN_FD, MIN_FD + 1, 9, 10, 255, 1024, I32_MAX}

\* The results of fetch_fds(.., 2): an error, or Ok with the descriptors of
\* the message that were at least MIN_FD, at most two of them.
FetchResults ==
    { [ok |-> FALSE, fds |-> <<>>] }
        \cup { [ok |-> TRUE, fds |-> fds] :
                  fds \in { <<>> } \cup { <<r>> : r \in MakeFds }
                            \cup { <<r, w>> : r \in MakeFds, w \in MakeFds } }

NoEnv == [CARGO_MAKEFLAGS |-> <<>>, MAKEFLAGS |-> <<>>]

InitMake ==
    /\ exFetched \in FetchResults
    /\ exCommand \in { <<>>, <<"make">>, <<"cargo", "build">> }
    /\ exPc = "fetch"
    /\ exMakeflags = <<>>
    /\ exEnv = NoEnv

IdleMake ==
    /\ exFetched = [ok |-> FALSE, fds |-> <<>>]
    /\ exCommand = <<>>
    /\ exPc = "fetch"
    /\ exMakeflags = <<>>
    /\ exEnv = NoEnv

\* let fds = fetch_fds(&self.fd_socket, 2)?;
MakeFetch ==
    /\ exPc = "fetch"
    /\ exPc' = IF exFetched.ok THEN "format" ELSE "returned"
    /\ UNCHANGED <<exFetched, exCommand, exMakeflags, exEnv>>

\* fds[0], fds[1] (a panic when the Vec is shorter) and format!.
MakeFormat ==
    /\ exPc = "format"
    /\ IF Len(exFetched.fds) < 2
       THEN exPc' = "panicked" /\ UNCHANGED exMakeflags
       ELSE /\ exMakeflags' = makeflags(exFetched.fds[1], exFetched.fds[2])
            /\ exPc' = "exec"
    /\ UNCHANGED <<exFetched, exCommand, exEnv>>

\* Command::new(&self.command[0]) (a panic when command is empty) with the
\* two variables set, then exec(): the command takes the process over, or
\* exec() returns its error and execute() returns it.
MakeExec ==
    /\ exPc = "exec"
    /\ IF exCommand = <<>>
       THEN exPc' = "panicked" /\ UNCHANGED exEnv
       ELSE \/ /\ exPc' = "execed"
               /\ exEnv' = [CARGO_MAKEFLAGS |-> exMakeflags,
                            MAKEFLAGS |-> exMakeflags]
            \/ /\ exPc' = "returned"
               /\ UNCHANGED exEnv
    /\ UNCHANGED <<exFetched, exCommand, exMakeflags>>


(***************************************************************************)
(* Specifications                                                          *)
(***************************************************************************)

vars == <<dockerVars, serveVars, buildVars, fsVars, makeflagsVars, fetchVars, makeVars>>

\* Each specification runs one part and leaves the other parts alone.
InitSpecDocker == InitDocker /\ IdleServe /\ IdleBuild /\ IdleFs /\ IdleMakeflags /\ IdleFetch /\ IdleMake

StepDocker ==
    \/ DockerNoStart /\ UNCHANGED <<serveVars, buildVars, fsVars, makeflagsVars, fetchVars, makeVars, makeVars>>
    \/ DockerSuccess /\ UNCHANGED <<serveVars, buildVars, fsVars, makeflagsVars, fetchVars, makeVars, makeVars>>
    \/ DockerFailure /\ UNCHANGED <<serveVars, buildVars, fsVars, makeflagsVars, fetchVars, makeVars, makeVars>>

SpecDocker == InitSpecDocker /\ [][StepDocker]_vars

\* docker() runs each command to its end: a started invocation completes.
FairSpecDocker == SpecDocker /\ WF_vars(StepDocker)

InitSpecServe == InitServe /\ IdleDocker /\ IdleBuild /\ IdleFs /\ IdleMakeflags /\ IdleFetch /\ IdleMake

StepServe ==
    \/ ServeBind /\ UNCHANGED <<dockerVars, buildVars, fsVars, makeflagsVars, fetchVars, makeVars, makeVars>>
    \/ ServeBindFail /\ UNCHANGED <<dockerVars, buildVars, fsVars, makeflagsVars, fetchVars, makeVars, makeVars>>
    \/ ClientConnect /\ UNCHANGED <<dockerVars, buildVars, fsVars, makeflagsVars, fetchVars, makeVars, makeVars>>
    \/ ServeAccept /\ UNCHANGED <<dockerVars, buildVars, fsVars, makeflagsVars, fetchVars, makeVars, makeVars>>
    \/ ServeAcceptError /\ UNCHANGED <<dockerVars, buildVars, fsVars, makeflagsVars, fetchVars, makeVars, makeVars>>
    \/ ServeCredentialsError /\ UNCHANGED <<dockerVars, buildVars, fsVars, makeflagsVars, fetchVars, makeVars, makeVars>>
    \/ SendTask /\ UNCHANGED <<dockerVars, buildVars, fsVars, makeflagsVars, fetchVars, makeVars, makeVars>>
    \/ ServeCancel /\ UNCHANGED <<dockerVars, buildVars, fsVars, makeflagsVars, fetchVars, makeVars, makeVars>>

SpecServe == InitSpecServe /\ [][StepServe]_vars

InitSpecBuild == InitBuild /\ IdleDocker /\ IdleServe /\ IdleFs /\ IdleMakeflags /\ IdleFetch /\ IdleMake

StepBuild ==
    \/ BuildChdir /\ UNCHANGED <<dockerVars, serveVars, fsVars, makeflagsVars, fetchVars, makeVars, makeVars>>
    \/ BuildMarkerDir /\ UNCHANGED <<dockerVars, serveVars, fsVars, makeflagsVars, fetchVars, makeVars, makeVars>>
    \/ BuildClean /\ UNCHANGED <<dockerVars, serveVars, fsVars, makeflagsVars, fetchVars, makeVars, makeVars>>
    \/ BuildPreCleanup /\ UNCHANGED <<dockerVars, serveVars, fsVars, makeflagsVars, fetchVars, makeVars, makeVars>>
    \/ BuildMakeflags /\ UNCHANGED <<dockerVars, serveVars, fsVars, makeflagsVars, fetchVars, makeVars, makeVars>>
    \/ BuildRuntime /\ UNCHANGED <<dockerVars, serveVars, fsVars, makeflagsVars, fetchVars, makeVars, makeVars>>
    \/ BuildSpawnJobs /\ UNCHANGED <<dockerVars, serveVars, fsVars, makeflagsVars, fetchVars, makeVars, makeVars>>
    \/ BuildSpawnBypass /\ UNCHANGED <<dockerVars, serveVars, fsVars, makeflagsVars, fetchVars, makeVars, makeVars>>
    \/ BuildInvoke /\ UNCHANGED <<dockerVars, serveVars, fsVars, makeflagsVars, fetchVars, makeVars, makeVars>>
    \/ BuildExit /\ UNCHANGED <<dockerVars, serveVars, fsVars, makeflagsVars, fetchVars, makeVars, makeVars>>
    \/ BuildRmBypass /\ UNCHANGED <<dockerVars, serveVars, fsVars, makeflagsVars, fetchVars, makeVars, makeVars>>
    \/ BuildShutdown /\ UNCHANGED <<dockerVars, serveVars, fsVars, makeflagsVars, fetchVars, makeVars, makeVars>>
    \/ BuildCheck /\ UNCHANGED <<dockerVars, serveVars, fsVars, makeflagsVars, fetchVars, makeVars, makeVars>>
    \/ BuildHarvest /\ UNCHANGED <<dockerVars, serveVars, fsVars, makeflagsVars, fetchVars, makeVars, makeVars>>
    \/ BuildCopy /\ UNCHANGED <<dockerVars, serveVars, fsVars, makeflagsVars, fetchVars, makeVars, makeVars>>
    \/ JobsBind /\ UNCHANGED <<dockerVars, serveVars, fsVars, makeflagsVars, fetchVars, makeVars, makeVars>>
    \/ BypassRun /\ UNCHANGED <<dockerVars, serveVars, fsVars, makeflagsVars, fetchVars, makeVars, makeVars>>
    \/ BypassContainer /\ UNCHANGED <<dockerVars, serveVars, fsVars, makeflagsVars, fetchVars, makeVars, makeVars>>
    \/ BypassBind /\ UNCHANGED <<dockerVars, serveVars, fsVars, makeflagsVars, fetchVars, makeVars, makeVars>>

SpecBuild == InitSpecBuild /\ [][StepBuild]_vars

InitSpecFs == InitFs /\ IdleDocker /\ IdleServe /\ IdleBuild /\ IdleMakeflags /\ IdleFetch /\ IdleMake

StepFs ==
    \/ FsStartBuild /\ UNCHANGED <<dockerVars, serveVars, buildVars, makeflagsVars, fetchVars, makeVars, makeVars>>
    \/ FsCleanMarker /\ UNCHANGED <<dockerVars, serveVars, buildVars, makeflagsVars, fetchVars, makeVars, makeVars>>
    \/ FsCleanDirs /\ UNCHANGED <<dockerVars, serveVars, buildVars, makeflagsVars, fetchVars, makeVars, makeVars>>
    \/ FsBuildRetry /\ UNCHANGED <<dockerVars, serveVars, buildVars, makeflagsVars, fetchVars, makeVars, makeVars>>
    \/ FsContainer /\ UNCHANGED <<dockerVars, serveVars, buildVars, makeflagsVars, fetchVars, makeVars, makeVars>>
    \/ FsCopyFile /\ UNCHANGED <<dockerVars, serveVars, buildVars, makeflagsVars, fetchVars, makeVars, makeVars>>
    \/ FsCopyDone /\ UNCHANGED <<dockerVars, serveVars, buildVars, makeflagsVars, fetchVars, makeVars, makeVars>>

SpecFs == InitSpecFs /\ [][StepFs]_vars

InitSpecMakeflags == InitMakeflags /\ IdleDocker /\ IdleServe /\ IdleBuild /\ IdleFs /\ IdleFetch /\ IdleMake

StepMakeflags ==
    ParseMakeflags /\ UNCHANGED <<dockerVars, serveVars, buildVars, fsVars, fetchVars, makeVars>>

SpecMakeflags == InitSpecMakeflags /\ [][StepMakeflags]_vars

InitSpecFetch ==
    InitFetch /\ IdleDocker /\ IdleServe /\ IdleBuild /\ IdleFs /\ IdleMakeflags /\ IdleMake

StepFetch ==
    \/ FetchConnect /\ UNCHANGED <<dockerVars, serveVars, buildVars, fsVars, makeflagsVars, makeVars>>
    \/ FetchRecv /\ UNCHANGED <<dockerVars, serveVars, buildVars, fsVars, makeflagsVars, makeVars>>
    \/ FetchEnsure /\ UNCHANGED <<dockerVars, serveVars, buildVars, fsVars, makeflagsVars, makeVars>>
    \/ FetchDuplicate /\ UNCHANGED <<dockerVars, serveVars, buildVars, fsVars, makeflagsVars, makeVars>>
    \/ FetchOk /\ UNCHANGED <<dockerVars, serveVars, buildVars, fsVars, makeflagsVars, makeVars>>

SpecFetch == InitSpecFetch /\ [][StepFetch]_vars

InitSpecMake ==
    InitMake /\ IdleDocker /\ IdleServe /\ IdleBuild /\ IdleFs /\ IdleMakeflags /\ IdleFetch

StepMake ==
    \/ MakeFetch /\ UNCHANGED <<dockerVars, serveVars, buildVars, fsVars, makeflagsVars, fetchVars>>
    \/ MakeFormat /\ UNCHANGED <<dockerVars, serveVars, buildVars, fsVars, makeflagsVars, fetchVars>>
    \/ MakeExec /\ UNCHANGED <<dockerVars, serveVars, buildVars, fsVars, makeflagsVars, fetchVars>>

SpecMake == InitSpecMake /\ [][StepMake]_vars

(***************************************************************************)
(* Claims about docker()                                                   *)
(***************************************************************************)

\* The text occurs somewhere in stdout.
Contains(stdout, frag) ==
    \E i \in 1..Len(stdout) : \E s \in 1..Len(stdout[i]) : stdout[i][s] = frag

AnyTransientMatch(stdout) == \E m \in RetryMessages : is_match(m, stdout)

\* C1: with Retry::Yes a failed invocation is followed by another one only if
\* its output matched one of the four transient patterns; a failed invocation
\* matching none ends the call with DockerExecution; an invocation that exits
\* with success ends the call with Ok whatever it printed; and once the call
\* has ended nothing is invoked any more.
C1_RetryOnlyOnTransient ==
    /\ [](dkRetry = "Yes" /\ dkInvocations > 0 =>
            /\ (dkLastStatus = "fail" /\ dkResult = "none"
                    => AnyTransientMatch(dkLastOut))
            /\ (dkLastStatus = "fail" /\ ~AnyTransientMatch(dkLastOut)
                    => dkResult = "DockerExecution")
            /\ (dkLastStatus = "ok" => dkResult = "Ok"))
    /\ [][dkResult # "none" => dkInvocations' = dkInvocations]_vars

\* A retried call ends on a failure that matches no pattern.
C1_Witness ==
    /\ dkRetry = "Yes"
    /\ dkInvocations >= 2
    /\ dkLastStatus = "fail"
    /\ ~AnyTransientMatch(dkLastOut)
    /\ dkResult = "DockerExecution"

\* C2 as stated: a failed invocation before the tenth whose stdout contains
\* `frontend grpc server closed unexpectedly` is never reported as an error
\* (it is retried, so that k such failures and a success take k+1 invocations).
C2_Original ==
    (dkRetry = "Yes" /\ dkLastStatus = "fail" /\ Contains(dkLastOut, F_GRPC)
        /\ dkInvocations < DOCKER_BUILD_MAX_ATTEMPTS)
    => dkResult = "none"

\* C2 amended: while every failed invocation printed the whole frontend
\* signature (dockerfile.v0 / gateway.v0 / grpc server closed), the first
\* nine failures are each retried, and a success after k of them (k = 0..9)
\* ends the call with Ok after exactly k+1 invocations.
C2_FrontendRetried ==
    (dkRetry = "Yes" /\ dkAllFrontend /\ dkLastStatus \in {"ok", "fail"}) =>
        /\ dkFailures <= DOCKER_BUILD_MAX_ATTEMPTS
        /\ (dkLastStatus = "fail" /\ dkFailures < DOCKER_BUILD_MAX_ATTEMPTS
                => dkResult = "none" /\ dkInvocations = dkFailures)
        /\ (dkLastStatus = "ok"
                => /\ dkResult = "Ok"
                   /\ dkInvocations = dkFailures + 1
                   /\ dkFailures <= DOCKER_BUILD_MAX_ATTEMPTS - 1)

\* Nine failures with the frontend signature, then success on the tenth.
C2_Witness ==
    /\ dkRetry = "Yes"
    /\ dkAllFrontend
    /\ dkFailures = DOCKER_BUILD_MAX_ATTEMPTS - 1
    /\ dkInvocations = DOCKER_BUILD_MAX_ATTEMPTS
    /\ dkLastStatus = "ok"
    /\ dkResult = "Ok"

\* C3: the loop ends, the command is never invoked more than max_attempts
\* times (ten for the container build), the attempt counter never exceeds
\* that maximum, and a tenth failure ends the call with DockerExecution.
C3_BoundedRetries ==
    /\ [](/\ dkInvocations <= max_attempts(dkRetry)
          /\ dkAttempt <= max_attempts(dkRetry)
          /\ (dkLastStatus = "fail" /\ dkInvocations = max_attempts(dkRetry)
                => dkResult = "DockerExecution"))
    /\ <>(dkResult # "none")

\* Ten transient failures in a row.
C3_Witness ==
    /\ dkRetry = "Yes"
    /\ dkInvocations = DOCKER_BUILD_MAX_ATTEMPTS
    /\ dkFailures = DOCKER_BUILD_MAX_ATTEMPTS
    /\ AnyTransientMatch(dkLastOut)
    /\ dkResult = "DockerExecution"

(***************************************************************************)
(* Claims about build() and its background tasks                           *)
(***************************************************************************)

\* C4: whenever the `docker build` subprocess is running, the jobserver
\* broker has attempted its bind (it listens or its bind failed) and so has
\* the pipesys of the bypass sidecar.
C4_BindBeforeBuild ==
    bBuildProc = "running" =>
        /\ bJobs \in {"listening", "bindfail"}
        /\ bBypass \in {"listening", "failed"}

\* CARGO_MAKEFLAGS is unset, is no text, or is a text that does not read as
\* `-j --jobserver-fds=R,W --jobserver-auth=AR,AW`.
NoHandshakeInEnv ==
    \/ bEnv.kind # "text"
    \/ \A rl \in 1..Len(bEnv.value), wl \in 1..Len(bEnv.value),
          al \in 1..Len(bEnv.value), bl \in 1..Len(bEnv.value) :
          LET v == bEnv.value
              digits(a, n) == /\ a + n - 1 <= Len(v)
                              /\ \A k \in a..(a + n - 1) :
                                    v[k] \in {"0", "1", "2", "3", "4", "5", "6", "7", "8", "9"}
          IN  ~ /\ Len(v) = 7 + rl + wl + al + bl
                /\ SubSeq(v, 1, 3) = <<"-j", " ", "--jobserver-fds=">>
                /\ digits(4, rl)
                /\ v[4 + rl] = ","
                /\ digits(5 + rl, wl)
                /\ SubSeq(v, 5 + rl + wl, 6 + rl + wl) = <<" ", "--jobserver-auth=">>
                /\ digits(7 + rl + wl, al)
                /\ v[7 + rl + wl + al] = ","
                /\ digits(8 + rl + wl + al, bl)

\* C17: with CARGO_MAKEFLAGS unset or not of the handshake form, build()
\* starts no runtime, no broker task and no sidecar task and never invokes
\* `docker build`; and when it reaches the lookup of the variable it
\* returns Environment (no text to look at) or RegexMatch (a text of another
\* form).
C17_BadMakeflagsStopsBuild ==
    /\ [](NoHandshakeInEnv =>
            /\ bRuntime = "none"
            /\ bJobs = "none"
            /\ bBypass = "none"
            /\ bBuildProc = "none"
            /\ bBuildResult = "none"
            /\ bPc \in {"chdir", "marker_dir", "clean", "pre_cleanup", "makeflags",
                        "failed"})
    /\ [][(NoHandshakeInEnv /\ bPc = "makeflags") =>
            /\ bPc' = "failed"
            /\ bResult' = IF bEnv.kind = "text" THEN "RegexMatch" ELSE "Environment"]_vars

\* build() returned RegexMatch for a handshake with a trailing newline.
C17_Witness ==
    /\ bPc = "failed"
    /\ bResult = "RegexMatch"
    /\ bEnv.kind = "text"
    /\ Len(bEnv.value) = 12
    /\ bEnv.value[12] = "\n"

\* C20: once build() is past the teardown of a run that spawned the two
\* tasks (it harvests, or it has returned), the runtime is shut down and no
\* sidecar container exists.
C20_TornDownBeforeHarvest ==
    (bRuntime # "none" /\ bPc \in {"create", "cp", "rm", "rmi", "copy", "done", "failed"}) =>
        /\ bRuntime = "shutdown"
        /\ bBypass \notin {"container", "listening"}

\* C21: no cleanup command makes build() fail: from a step that runs
\* `docker rm` or `docker rmi` (before the build, after it, or after the
\* copy out of the container), build() goes on to its next step.
C21_CleanupNeverFailsBuild ==
    [][(bPc \in {"pre_cleanup", "rm_bypass", "rm", "rmi"}) => (bPc' # "failed")]_vars

\* C22: copy_build_files, the one place where build() renames a file into
\* the output directory or writes a marker, is called only when
\* docker(&build) has returned Ok and `docker create` and `docker cp` have
\* each returned Ok; when one of the three fails it is not called.
C22_SwapOnlyAfterBuildAndCopy ==
    "copy_build_files" \in bCalled =>
        bBuildResult = "Ok" /\ {"create", "cp"} \subseteq bOk

\* A build() that called copy_build_files after a retried `docker build`.
C22_Witness ==
    /\ "copy_build_files" \in bCalled
    /\ bAttempt > 1
    /\ bPc \in {"done", "failed"}

\* C24: when build() has returned, with Ok or with an error, the working
\* directory of the process is the one build() was called in.
C24_WorkingDirectoryRestored ==
    bPc \in {"done", "failed"} => bCwd = "caller"

\* C25: when build() has returned the error of a failed docker(&build), it
\* has run the removal of the sidecar container, of the build container and
\* of the image since docker(&build) returned.
C25_CleanupOnBuildFailure ==
    (bPc = "failed" /\ bBuildResult \in {"DockerExecution", "CommandStart"}) =>
        {"rm_bypass", "rm", "rmi"} \subseteq bCalled

(***************************************************************************)
(* Claims about Server::serve                                              *)
(***************************************************************************)

ConnIds == 1..Len(svConns)

\* A send was started on the connection (the task that calls send_fds exists
\* or has run).
SendStarted(c) == c.st \in {"sending", "sent", "sendfail"}

\* C5: every connection the broker sends descriptors on belongs to a peer
\* whose effective UID is the configured client_uid.
C5_SendOnlyToClientUid ==
    \A i \in ConnIds : SendStarted(svConns[i]) => svConns[i].uid = svClientUid

\* A peer with another UID was turned away and a peer with the expected UID
\* received the descriptors.
C5_Witness ==
    /\ \E i \in ConnIds : svConns[i].uid # svClientUid /\ svConns[i].st = "rejected"
    /\ \E i \in ConnIds : svConns[i].uid = svClientUid /\ svConns[i].st = "sent"

\* C6: a connection from a peer with another UID is accepted and dropped
\* with no send, then or later, and the loop goes on as before; a connection
\* from a peer with the expected UID that the loop takes up afterwards gets
\* its send.
C6_RejectKeepsServing ==
    /\ [](\A i \in ConnIds :
            svConns[i].uid # svClientUid => ~SendStarted(svConns[i]))
    /\ [][\A i \in ConnIds :
            (svConns[i].st = "pending" /\ svConns'[i].st = "rejected")
                => /\ svConns[i].uid # svClientUid
                   /\ svPc' = "accept"
                   /\ svServeFds' = svServeFds
                   /\ svClientUid' = svClientUid]_vars
    /\ [][\A i \in ConnIds :
            svConns[i].st = "rejected" => svConns'[i].st = "rejected"]_vars
    /\ [][\A i \in ConnIds :
            (/\ svConns[i].st = "pending"
             /\ svConns'[i].st \notin {"pending", "dropped"}
             /\ svConns[i].uid = svClientUid)
                => svConns'[i].st = "sending" /\ svPc' = "accept"]_vars

\* After a rejected connection, a later one with the expected UID was sent
\* the descriptors.
C6_Witness ==
    \E j \in ConnIds : \E i \in ConnIds :
        /\ j < i
        /\ svConns[j].st = "rejected"
        /\ svConns[i].uid = svClientUid
        /\ svConns[i].st = "sent"

\* C7: once serve() is in its accept loop it does not return: from there it
\* only goes on accepting or is cancelled.
C7_NeverReturnsOnItsOwn ==
    [][svPc = "accept" => svPc' \in {"accept", "cancelled"}]_vars

\* C27: a Server that is serving has exactly one of `paths` and `fds` set.
C27_ExactlyOneSource ==
    svPc = "accept" => ((svPaths = "None") # (svFds = "None"))

\* Connection j is sending and its send can complete now.
SendCanComplete(j) ==
    ENABLED (SendTask /\ svConns'[j].st = "sent")

\* C28: while serve() is in its loop and the send to some client is
\* pending, a connection waiting in the backlog can be accepted, and the
\* send to every other client that is being served can complete.
C28_SlowClientDoesNotBlock ==
    \A i \in 1..Len(svConns) :
        (svPc = "accept" /\ svConns[i].st = "sending") =>
            /\ HasPending(svConns) => ENABLED ServeAccept
            /\ \A j \in 1..Len(svConns) :
                  (j # i /\ svConns[j].st = "sending") => SendCanComplete(j)

\* The send to the first client is still pending; a client that connected
\* after it has received its descriptors, and one more waits in the backlog.
C28_Witness ==
    /\ svPc = "accept"
    /\ Len(svConns) = 3
    /\ svConns[1].st = "sending"
    /\ svConns[2].st = "sent"
    /\ svConns[3].st = "pending"

(***************************************************************************)
(* Claims about the marker directory and the output directory             *)
(***************************************************************************)

\* The file name with the suffix `.buildsys_marker` appended.
WithMarkerSuffix(p) ==
    [p EXCEPT ![Len(p)] = Append(p[Len(p)], "buildsys_marker")]

\* The marker files of a tree.
MarkersIn(t) ==
    { m \in DOMAIN t :
        /\ Len(m) >= 1
        /\ t[m] = "file"
        /\ Len(LastName(m)) >= 2
        /\ LastName(m)[Len(LastName(m))] = "buildsys_marker" }

\* The path a marker stands for: the same path with the suffix taken off.
WithoutMarkerSuffix(m) ==
    [m EXCEPT ![Len(m)] = SubSeq(m[Len(m)], 1, Len(m[Len(m)]) - 1)]

\* C8: when build() has returned Ok, every file it renamed into the output
\* directory is there and has its marker, a file at the same relative path
\* of the marker directory with `.buildsys_marker` appended to the name.
C8_PlacedFilesHaveMarkers ==
    fsPc = "done" =>
        \A p \in fsPlaced :
            /\ p \in DOMAIN fsOut
            /\ WithMarkerSuffix(p) \in DOMAIN fsMk
            /\ fsMk[WithMarkerSuffix(p)] = "file"

\* A successful build that placed a top-level and a nested file.
C8_Witness ==
    /\ fsPc = "done"
    /\ \E p \in fsPlaced : Len(p) = 1
    /\ \E p \in fsPlaced : Len(p) = 3

\* C9: when clean_build_files has returned Ok, and for as long as the
\* build has not started to copy (also when it then fails), no marker file of
\* the marker directory has its output file in the output directory.
C9_NoLiveMarkerAfterClean ==
    (fsPc = "cleaned" \/ (fsPc = "failed" /\ fsFailedAt = "container")) =>
        \A m \in MarkersIn(fsMk) : WithoutMarkerSuffix(m) \notin DOMAIN fsOut

\* The clean step found a marker, nested in a directory, whose output file
\* existed.
C9_Witness ==
    /\ fsPc = "cleaned"
    /\ \E m \in MarkersIn(fsPreMk) :
          Len(m) >= 2 /\ WithoutMarkerSuffix(m) \in DOMAIN fsPreOut

\* What the clean step took out of a tree: the files and links that were
\* there before it and are not there after it.
RemovedFiles(pre, post) ==
    { p \in DOMAIN pre : pre[p] # "dir" /\ p \notin DOMAIN post }

\* Every directory of `post`, the root aside, that lies above a removed file
\* still has an entry.
EmptiedDirsGone(pre, post) ==
    \A r \in RemovedFiles(pre, post) :
        \A d \in Ancestors(r) \ { <<>> } :
            d \in DOMAIN post => Children(post, d) # {}

\* Every entry of the tree has its directory.
NoOrphans(t) ==
    \A q \in DOMAIN t : q # <<>> => (Parent(q) \in DOMAIN t /\ t[Parent(q)] = "dir")

\* C10: when clean_build_files has returned Ok, every marker it found is
\* gone and so is that marker's output file; every directory above a removed
\* file that was left empty is gone, in the output tree and in the marker
\* tree; the two roots are still there; and no directory was removed from
\* under an entry that is still there.
C10_CleanRemovesArtifactsAndEmptyDirs ==
    fsPc = "cleaned" =>
        /\ \A m \in MarkersIn(fsPreMk) :
              m \notin DOMAIN fsMk /\ WithoutMarkerSuffix(m) \notin DOMAIN fsOut
        /\ EmptiedDirsGone(fsPreOut, fsOut)
        /\ EmptiedDirsGone(fsPreMk, fsMk)
        /\ <<>> \in DOMAIN fsOut
        /\ <<>> \in DOMAIN fsMk
        /\ NoOrphans(fsOut)
        /\ NoOrphans(fsMk)

\* The clean step removed a/c/z with its marker, and with them the
\* directories a/c and a of both trees, while the output directory kept
\* another file.
C10_Witness ==
    /\ fsPc = "cleaned"
    /\ << <<"a">>, <<"c">>, <<"z">> >> \in DOMAIN fsPreOut
    /\ << <<"a">>, <<"c">>, <<"z", "buildsys_marker">> >> \in DOMAIN fsPreMk
    /\ << <<"a">> >> \notin DOMAIN fsOut
    /\ << <<"a">> >> \notin DOMAIN fsMk
    /\ << <<"k">> >> \in DOMAIN fsOut

(***************************************************************************)
(* Claims about repeated builds on one pair of directories                 *)
(***************************************************************************)

\* The files and links of a tree, each with its kind.
FilesOf(t) == { <<p, t[p]>> : p \in { q \in DOMAIN t : t[q] # "dir" } }

\* The marker paths of a set of artifact paths.
MarkersFor(paths) == { WithMarkerSuffix(p) : p \in paths }

\* C11: when build() has returned Ok, and the call of build() before it had
\* returned Ok with a container that held the same files, the output tree
\* holds the same files as after that earlier call, and the marker files of
\* the marker directory are exactly one per file of the container.
C11_RepeatedBuildSameTree ==
    (fsPc = "done" /\ fsLast.ok /\ fsLast.files = fsFiles) =>
        /\ FilesOf(fsOut) = FilesOf(fsLast.out)
        /\ MarkersIn(fsMk) = MarkersFor(DOMAIN fsFiles)

RECURSIVE CopyAll(_, _, _)
\* copy_build_files with every step succeeding, over the artifacts `todo`.
CopyAll(out, mk, todo) ==
    IF todo = {} THEN [out |-> out, mk |-> mk]
    ELSE LET p == CHOOSE x \in todo : TRUE
             marked == CreateMarker(mk, MarkerOf(p)).t
             parent == create_dir_all(out, Parent(p)).t
         IN  CopyAll(Put(parent, p, mk[p]), Del(marked, p), todo \ {p})

\* What build() ends with when it starts from the trees `cleaned`, its first
\* `docker build` succeeds, the container holds `files`, and nothing fails.
SingleBuild(cleaned, files) ==
    LET mk == PutAll(cleaned.mk, files, DOMAIN files)
    IN  CopyAll(cleaned.out, mk, find_files(mk, "has_artifacts"))

C13_MarkersNameLatestBuild ==
    fsPc = "done" =>
        /\ MarkersIn(fsMk) = MarkersFor(DOMAIN fsFiles)
        /\ fsPlaced \subseteq DOMAIN fsFiles

(***************************************************************************)
(* Claims about what build() does to the output directory, and when        *)
(***************************************************************************)

\* Every entry of tree `post` is an entry of tree `pre`, of the same kind.
OnlyRemovals(pre, post) ==
    /\ DOMAIN post \subseteq DOMAIN pre
    /\ \A p \in DOMAIN post : post[p] = pre[p]

\* C23 as stated: from the call of build() until copy_build_files starts,
\* the output directory is as build() found it.
C23_Original ==
    fsPc \in {"clean", "cleaned"} => fsOut = fsPreOut

\* C23, amended: from the call of build() until copy_build_files starts,
\* nothing is created in the output directory or renamed into it and no
\* entry changes its kind: clean_build_files only removes entries; once
\* clean_build_files has returned the output directory stays as it is until
\* copy_build_files starts; and the output directory changes in no step
\* other than those of clean_build_files and of copy_build_files.
C23_OnlyRemovalsBeforeCollection ==
    /\ []((fsPc \in {"clean", "cleaned"} \/ (fsPc = "failed" /\ fsFailedAt = "clean"))
            => OnlyRemovals(fsPreOut, fsOut))
    /\ []((fsPc = "cleaned" \/ (fsPc = "failed" /\ fsFailedAt = "container"))
            => fsOut = fsCleaned.out)
    /\ [][(fsOut' # fsOut) => (fsPc \in {"clean", "copy"})]_vars

\* The clean step removed a file from an output directory that keeps
\* another one.
C23_Witness ==
    /\ fsPc = "cleaned"
    /\ RemovedFiles(fsPreOut, fsOut) # {}
    /\ \E p \in DOMAIN fsOut : fsOut[p] = "file"

\* C29: while copy_build_files runs, when it has returned Ok and when it
\* has stopped with an error, every file it has renamed into the output
\* directory is there and has its marker in the marker directory; the walk
\* of clean_build_files finds that marker, and the output path
\* clean_build_files computes from it is the path of the file.
C29_MovedFilesAreMarked ==
    (fsPc \in {"copy", "done"} \/ (fsPc = "failed" /\ fsFailedAt = "copy")) =>
        \A p \in fsPlaced :
            /\ p \in DOMAIN fsOut
            /\ WithMarkerSuffix(p) \in MarkersIn(fsMk)
            /\ WithMarkerSuffix(p) \in find_files(fsMk, "has_markers")
            /\ OutputOf(WithMarkerSuffix(p)) = p

\* copy_build_files stopped with an error after it had moved a/b.rpm and
\* before it had moved every file of the container.
C29_Witness ==
    /\ fsPc = "failed"
    /\ fsFailedAt = "copy"
    /\ << <<"a">>, <<"b", "rpm">> >> \in fsPlaced
    /\ (DOMAIN fsFiles) \ fsPlaced # {}

\* The files and links of the output tree `out` that have no marker in the
\* marker tree `mk`.
Unmarked(out, mk) ==
    { p \in DOMAIN out :
        out[p] # "dir" /\ WithMarkerSuffix(p) \notin MarkersIn(mk) }

\* C30: when clean_build_files has returned Ok, every file of the output
\* directory that had no marker when it started is still there, of the same
\* kind, with every directory above it; if the marker directory was empty
\* when it started, both trees are as they were; and the walk of a second
\* clean_build_files would find nothing to remove.
C30_CleanRemovesOnlyMarkedFiles ==
    fsPc = "cleaned" =>
        /\ \A p \in Unmarked(fsPreOut, fsPreMk) :
              /\ p \in DOMAIN fsOut
              /\ fsOut[p] = fsPreOut[p]
              /\ \A d \in Ancestors(p) : d \in DOMAIN fsOut /\ fsOut[d] = "dir"
        /\ (fsPreMk = EmptyTree => (fsOut = fsPreOut /\ fsMk = fsPreMk))
        /\ find_files(fsMk, "has_markers") = {}

(***************************************************************************)
(* Claims about parse_makeflags                                            *)
(***************************************************************************)

IsDigit(c) == c \in {"0", "1", "2", "3", "4", "5", "6", "7", "8", "9"}

\* The maximal runs of digits of a text.
RunsOf(s) ==
    LET starts == { i \in 1..Len(s) : IsDigit(s[i]) /\ (i = 1 \/ ~IsDigit(s[i - 1])) }
        endOf(i) == CHOOSE j \in i..Len(s) :
                        /\ \A k \in i..j : IsDigit(s[k])
                        /\ (j = Len(s) \/ ~IsDigit(s[j + 1]))
    IN  { SubSeq(s, i, endOf(i)) : i \in starts }

\* The ways to read a text as
\* `-j --jobserver-fds=R,W --jobserver-auth=AR,AW` with four runs of digits:
\* none when the text has not that form, else the one <<R, W, AR, AW>>.
PatternFields(s) ==
    { f \in RunsOf(s) \X RunsOf(s) \X RunsOf(s) \X RunsOf(s) :
        s = <<"-j", " ", "--jobserver-fds=">> \o f[1] \o <<",">> \o f[2]
              \o <<" ", "--jobserver-auth=">> \o f[3] \o <<",">> \o f[4] }

RECURSIVE DecimalOf(_)
\* The number a text of digits stands for.
DecimalOf(t) ==
    IF t = <<>> THEN 0
    ELSE 10 * DecimalOf(SubSeq(t, 1, Len(t) - 1)) + DigitValue(t[Len(t)])

\* C14: when parse_makeflags has returned Ok((r, w)), its input reads as
\* the handshake with the fds pair equal, byte for byte, to the auth pair,
\* r and w are the decimal values of the two halves, and neither is negative.
C14_OkOnlyOnHandshake ==
    (mfPc = "returned" /\ mfResult.kind = "Ok") =>
        \E f \in PatternFields(mfInput) :
            /\ f[1] = f[3]
            /\ f[2] = f[4]
            /\ mfResult.read_fd = DecimalOf(f[1])
            /\ mfResult.write_fd = DecimalOf(f[2])
            /\ mfResult.read_fd >= 0
            /\ mfResult.write_fd >= 0

\* `-j --jobserver-fds=3,4 --jobserver-auth=3,4` gave (3, 4).
C14_Witness ==
    /\ mfPc = "returned"
    /\ mfInput = <<"-j", " ", "--jobserver-fds=", "3", ",", "4", " ",
                   "--jobserver-auth=", "3", ",", "4">>
    /\ mfResult = [kind |-> "Ok", read_fd |-> 3, write_fd |-> 4]

\* C15: when parse_makeflags has returned for an input that reads as the
\* handshake, read halves that differ in any byte gave FileDescriptorMismatch
\* for `read`, and equal read halves with write halves that differ in any
\* byte gave FileDescriptorMismatch for `write`.
C15_MismatchReported ==
    mfPc = "returned" =>
        \A f \in PatternFields(mfInput) :
            /\ f[1] # f[3] =>
                  mfResult = [kind |-> "FileDescriptorMismatch", what |-> "read"]
            /\ (f[1] = f[3] /\ f[2] # f[4]) =>
                  mfResult = [kind |-> "FileDescriptorMismatch", what |-> "write"]

\* `-j --jobserver-fds=3,4 --jobserver-auth=03,4` gave a mismatch of `read`.
C15_Witness ==
    /\ mfPc = "returned"
    /\ mfInput = <<"-j", " ", "--jobserver-fds=", "3", ",", "4", " ",
                   "--jobserver-auth=", "0", "3", ",", "4">>
    /\ mfResult = [kind |-> "FileDescriptorMismatch", what |-> "read"]

RECURSIVE LeadingZerosOff(_)
LeadingZerosOff(t) ==
    IF Len(t) >= 2 /\ t[1] = "0" THEN LeadingZerosOff(SubSeq(t, 2, Len(t))) ELSE t

RECURSIVE DigitsAtMost(_, _)
\* a <= b for two texts of digits of the same length
DigitsAtMost(a, b) ==
    IF a = <<>> THEN TRUE
    ELSE IF a[1] = b[1] THEN DigitsAtMost(SubSeq(a, 2, Len(a)), SubSeq(b, 2, Len(b)))
    ELSE DigitValue(a[1]) < DigitValue(b[1])

\* Whether the number a text of digits stands for is at most 2^31 - 1.
FitsI32(t) ==
    LET u == LeadingZerosOff(t)
    IN  \/ Len(u) < 10
        \/ Len(u) = 10
           /\ DigitsAtMost(u, <<"2", "1", "4", "7", "4", "8", "3", "6", "4", "7">>)

\* C16: when parse_makeflags has returned for an input that reads as the
\* handshake with equal pairs, and the read or the write half stands for a
\* number above 2^31 - 1, it returned FileDescriptorParse.
C16_OverflowIsParseError ==
    mfPc = "returned" =>
        \A f \in PatternFields(mfInput) :
            (f[1] = f[3] /\ f[2] = f[4] /\ (~FitsI32(f[1]) \/ ~FitsI32(f[2]))) =>
                mfResult.kind = "FileDescriptorParse"

\* A write half of 2^31 gave a parse error.
C16_Witness ==
    /\ mfPc = "returned"
    /\ mfInput = <<"-j", " ", "--jobserver-fds=", "3", ",">>
                    \o <<"2", "1", "4", "7", "4", "8", "3", "6", "4", "8">>
                    \o <<" ", "--jobserver-auth=", "3", ",">>
                    \o <<"2", "1", "4", "7", "4", "8", "3", "6", "4", "8">>
    /\ mfResult.kind = "FileDescriptorParse"

\* C31: parse_makeflags reports the first check that fails, in the order
\* pattern, read halves, write halves, parse of the read half, parse of the
\* write half: an input that does not read as the handshake gave RegexMatch;
\* read halves that differ gave the mismatch of `read`, whatever the write
\* halves and however large the numbers; equal read halves and write halves
\* that differ gave the mismatch of `write`, however large the numbers; with
\* both pairs equal, a read half above 2^31 - 1 gave FileDescriptorParse for
\* the read half, and else a write half above it gave FileDescriptorParse
\* for the write half.
C31_ChecksInFixedOrder ==
    mfPc = "returned" =>
        /\ PatternFields(mfInput) = {} => mfResult = [kind |-> "RegexMatch"]
        /\ \A f \in PatternFields(mfInput) :
              IF f[1] # f[3]
              THEN mfResult = [kind |-> "FileDescriptorMismatch", what |-> "read"]
              ELSE IF f[2] # f[4]
              THEN mfResult = [kind |-> "FileDescriptorMismatch", what |-> "write"]
              ELSE IF ~FitsI32(f[1])
              THEN mfResult = [kind |-> "FileDescriptorParse", input |-> f[1]]
              ELSE IF ~FitsI32(f[2])
              THEN mfResult = [kind |-> "FileDescriptorParse", input |-> f[2]]
              ELSE mfResult.kind = "Ok"

\* An input whose read halves differ, whose write halves differ, and whose
\* read half is 2^31, gave the mismatch of `read`.
C31_Witness ==
    /\ mfPc = "returned"
    /\ mfInput = <<"-j", " ", "--jobserver-fds=">>
                    \o <<"2", "1", "4", "7", "4", "8", "3", "6", "4", "8">>
                    \o <<",", "4", " ", "--jobserver-auth=", "3", ",", "5">>
    /\ mfResult = [kind |-> "FileDescriptorMismatch", what |-> "read"]

(***************************************************************************)
(* Claims about fetch_fds                                                  *)
(***************************************************************************)

\* C18: every descriptor fetch_fds has put into the list it returns is
\* numbered 3 or higher, whatever numbers the received descriptors got and
\* whatever was open in the client.
C18_ReturnedFdsAtLeastThree ==
    \A i \in 1..Len(ffDup) : ffDup[i] >= 3

\* fetch_fds returned Ok with a duplicate after the client, with a standard
\* descriptor closed, had received a descriptor numbered below 3.
C18_Witness ==
    /\ ffResult = "Ok"
    /\ Len(ffDup) >= 1
    /\ \E i \in 1..Len(ffBuf) : ffBuf[i] \in {0, 1, 2}

\* C19: when fetch_fds has returned Ok, it received `wanted` descriptors,
\* none of them numbered below 3, and its list holds `wanted` duplicates.
C19_OkHasWantedFds ==
    ffResult = "Ok" =>
        /\ ffFds = ffWanted
        /\ \A i \in 1..ffWanted : ffBuf[i] >= 3
        /\ Len(ffDup) = ffWanted

(***************************************************************************)
(* Claims about Make::execute                                              *)
(***************************************************************************)

\* C26: the text Make::execute builds from the pair (r, w) that fetch_fds
\* returned is one parse_makeflags accepts, and parse_makeflags returns
\* Ok((r, w)) for it; the command, once executed, has that text as its
\* CARGO_MAKEFLAGS and as its MAKEFLAGS.
C26_LauncherHandshakeRoundTrip ==
    /\ exPc \in {"exec", "execed"} =>
          parse_makeflags(exMakeflags) =
              [kind |-> "Ok", read_fd |-> exFetched.fds[1],
               write_fd |-> exFetched.fds[2]]
    /\ exPc = "execed" =>
          /\ exEnv.CARGO_MAKEFLAGS = exMakeflags
          /\ exEnv.MAKEFLAGS = exMakeflags

\* The command was executed with the handshake of descriptors 1024 and
\* i32::MAX.
C26_Witness ==
    /\ exPc = "execed"
    /\ exFetched.fds = <<1024, 2147483647>>
    /\ exEnv.MAKEFLAGS # <<>>

====
